---- MODULE Spec2Model ----
(***************************************************************************)
(* Shrdlite planner: the updatable binary heap, the generic A* search      *)
(* engine (Graph.ts) and the block-world planner built on it (Planner.ts). *)
(*                                                                         *)
(* Array indices are kept 0-based as in the source; At(data, i) reads the  *)
(* i-th slot of a JavaScript array held as a TLA+ sequence.                *)
(***************************************************************************)
EXTENDS Integers, Sequences, FiniteSets, TLC

VARIABLES
  openNodes,      \* Heap.data of the open queue (Graph.ts:314, 403)
  removed,        \* what the last Heap.removeRoot returned (heap harness)
  closedNodes,    \* Set<Node> of closed nodes (Graph.ts:292)
  predecessors,   \* Dictionary node -> predecessor node (Graph.ts:294)
  result,         \* SearchResult {path, cost} (Graph.ts:283)
  pc,             \* where the running call stands
  now,            \* startTime + Date.now(): elapsed milliseconds
  timeout,        \* the timeout argument, in seconds
  start,          \* the start node
  graph,          \* explicit graph of the engine harness: node -> edges
  goals,          \* goal nodes of the engine harness
  hvals,          \* heuristic table of the engine harness
  popped,         \* number of removeRoot calls the search has made
  interpretations,\* Planner.plan: the candidate formulas
  cur,            \* Planner.plan: index (0-based) of the candidate in work
  plans,          \* Planner.plan: plans pushed so far
  errors,         \* Planner.plan: errors pushed so far
  walk,           \* state-model harness: the node the walk stands on
  steps,          \* state-model harness: edges followed so far
  returned,       \* evaluation harness: what the function called returned
  cmd,            \* interpreter harness: the parsed command
  openNodesGoal,  \* biDirectionalSearch: the open queue of the goal side
  closedGoalNodes,\* biDirectionalSearch: the closed set of the goal side
  goalSuccessors  \* biDirectionalSearch: Dictionary successors

vars == <<openNodes, removed, closedNodes, predecessors, result, pc, now,
          timeout, start, graph, goals, hvals, popped, interpretations, cur,
          plans, errors, walk, steps, returned, cmd, openNodesGoal,
          closedGoalNodes, goalSuccessors>>

searchVars == <<closedNodes, predecessors, result, now, timeout, start,
                graph, goals, hvals, popped>>
planVars == <<interpretations, cur, plans, errors>>
walkVars == <<walk, steps>>
evalVars == <<returned, cmd>>
biVars == <<openNodesGoal, closedGoalNodes, goalSuccessors>>

-----------------------------------------------------------------------------
(* Bounds of the model *)

MaxHeap == 4        \* most elements the heap harness stores
MaxRank == 3        \* largest g-cost the heap harness hands out
NumNodes == 4       \* nodes of the explicit graphs of the engine harness
MaxCost == 3        \* largest edge cost of the explicit graphs
MaxH == 2           \* largest heuristic value of the explicit graphs
TickMs == 2500      \* milliseconds the clock advances by in one step
MaxNow == 5000      \* the clock stops advancing once it has reached this
SmallStacks == 2    \* columns of the small worlds
NumStacks == 4      \* columns of the wide worlds

-----------------------------------------------------------------------------
(* JavaScript arrays *)

At(data, i) == data[i + 1]

\* arrays.swap(array, i, j)
swap(data, i, j) ==
  [data EXCEPT ![i + 1] = data[j + 1], ![j + 1] = data[i + 1]]

Abs(x) == IF x < 0 THEN -x ELSE x

\* Array.prototype.indexOf: the first slot holding the element, or -1
RECURSIVE indexOfFrom(_, _, _)
indexOfFrom(array, element, i) ==
  IF i >= Len(array) THEN -1
  ELSE IF At(array, i) = element THEN i
  ELSE indexOfFrom(array, element, i + 1)

indexOf(array, element) == indexOfFrom(array, element, 0)

-----------------------------------------------------------------------------
(* Block world: WorldState, literals, goal test (Planner.ts) *)

\* state.holding is null in a world whose arm is empty; newWorldState's drop
\* stores the empty string instead
Null == "<null>"

\* the objects of the worlds, with the attributes canDrop reads
ObjectIds == {"a", "b", "c"}

objects ==
  [a |-> [form |-> "ball",  size |-> "small"],
   b |-> [form |-> "box",   size |-> "large"],
   c |-> [form |-> "brick", size |-> "large"]]

WorldState(stacks, holding, arm) ==
  [stacks |-> stacks, holding |-> holding, arm |-> arm]

StateNode(move, state) == [move |-> move, state |-> state]

Literal(relation, args) ==
  [polarity |-> TRUE, relation |-> relation, args |-> args]

\* the first column (0-based) from x on whose stack holds the object, or -1
RECURSIVE columnFrom(_, _, _)
columnFrom(objectId, state, x) ==
  IF x >= Len(state.stacks) THEN -1
  ELSE IF indexOf(At(state.stacks, x), objectId) > -1 THEN x
  ELSE columnFrom(objectId, state, x + 1)

\* for (let stack of state.stacks): the indices of the two arguments in it
indexPairs(state, a0, a1) ==
  {<<indexOf(state.stacks[x], a0), indexOf(state.stacks[x], a1)>> :
     x \in 1 .. Len(state.stacks)}

\* the 'beside' case: the first stack holding args[0] decides
besideAt(state, x, a1) ==
  IF x = -1 THEN FALSE
  ELSE \/ (x >= 1 /\ indexOf(At(state.stacks, x - 1), a1) > -1)
       \/ /\ x < Len(state.stacks) - 1
          /\ indexOf(At(state.stacks, x + 1), a1) > -1

\* the 'leftof' (dir = 1) and 'rightof' (dir = -1) cases
sideOf(state, a0, a1, dir) ==
  \E x \in 0 .. Len(state.stacks) - 1 :
    /\ indexOf(At(state.stacks, x), a0) > -1
    /\ \E x2 \in 0 .. Len(state.stacks) - 1 :
         /\ (x2 - x) * dir >= 1
         /\ indexOf(At(state.stacks, x2), a1) > -1

literalHolds(literal, state) ==
  CASE literal.relation = "holding" -> state.holding = literal.args[1]
    [] literal.relation = "ontop" ->
         IF literal.args[2] = "floor"
         THEN \E x \in 1 .. Len(state.stacks) :
                indexOf(state.stacks[x], literal.args[1]) = 0
         ELSE \E p \in indexPairs(state, literal.args[1], literal.args[2]) :
                p[1] = p[2] - 1
    [] literal.relation = "inside" ->
         \E p \in indexPairs(state, literal.args[1], literal.args[2]) :
           p[1] = p[2] - 1
    [] literal.relation = "above" ->
         IF literal.args[2] = "floor" THEN TRUE
         ELSE \E p \in indexPairs(state, literal.args[1], literal.args[2]) :
                p[1] > p[2]
    [] literal.relation = "under" ->
         \E p \in indexPairs(state, literal.args[1], literal.args[2]) :
           p[1] < p[2]
    [] literal.relation = "beside" ->
         besideAt(state, columnFrom(literal.args[1], state, 0), literal.args[2])
    [] literal.relation = "leftof" ->
         sideOf(state, literal.args[1], literal.args[2], 1)
    [] literal.relation = "rightof" ->
         sideOf(state, literal.args[1], literal.args[2], -1)
    [] OTHER -> FALSE

\* getPosition throws Error("ERROR: Object ... does not exist.")
getPositionThrows(objectId, state) == columnFrom(objectId, state, 0) = -1

\* getPosition(objectId, state) = [x, y], when it does not throw
positionAt(objectId, state, x) ==
  <<x, indexOf(At(state.stacks, x), objectId)>>

getPosition(objectId, state) ==
  positionAt(objectId, state, columnFrom(objectId, state, 0))

distanceFromArm(objectId, state) ==
  Abs(getPosition(objectId, state)[1] - state.arm)

aboveAt(state, position) ==
  Len(At(state.stacks, position[1])) - position[2] - 1

objectsAbove(objectId, state) ==
  aboveAt(state, getPosition(objectId, state))

BinaryRelations ==
  {"ontop", "inside", "above", "under", "beside", "leftof", "rightof"}

\* estimatedCostLiteral ends in the error getPosition throws
estimatedCostLiteralThrows(literal, state) ==
  /\ ~literalHolds(literal, state)
  /\ \/ /\ literal.relation = "holding"
        /\ getPositionThrows(literal.args[1], state)
     \/ /\ literal.relation \in BinaryRelations
        /\ \/ getPositionThrows(literal.args[1], state)
           \/ getPositionThrows(literal.args[2], state)

\* Error("ERROR: Object '" + objectId + "' does not exist.")
doesNotExist(objectId) == "ERROR: Object '" \o objectId \o "' does not exist."

\* every branch of estimatedCostLiteral asks for args[0] before args[1]
estimatedCostLiteralError(literal, state) ==
  IF getPositionThrows(literal.args[1], state)
  THEN doesNotExist(literal.args[1])
  ELSE doesNotExist(literal.args[2])

\* the part of every estimate that concerns args[0]
takeCost(objectId, state) ==
  (objectsAbove(objectId, state) * 3) + distanceFromArm(objectId, state)

notHoldingCost(literal, state, holdingCost) ==
  CASE literal.relation = "holding" ->
         holdingCost + distanceFromArm(literal.args[1], state)
    [] literal.relation \in {"ontop", "inside"} ->
         holdingCost
           + takeCost(literal.args[1], state)
           + takeCost(literal.args[2], state)
    [] literal.relation = "above" ->
         holdingCost
           + takeCost(literal.args[1], state)
           + distanceFromArm(literal.args[2], state)
    [] literal.relation = "under" ->
         (IF holdingCost = 1 THEN 6 ELSE 8)
           + takeCost(literal.args[1], state)
           + takeCost(literal.args[2], state)
    [] literal.relation = "beside" ->
         holdingCost
           + takeCost(literal.args[1], state)
           + (distanceFromArm(literal.args[2], state) - 1)
    [] literal.relation = "leftof" ->
         holdingCost
           + takeCost(literal.args[1], state)
           + Abs(getPosition(literal.args[2], state)[1] + 1 - state.arm)
    [] literal.relation = "rightof" ->
         holdingCost
           + takeCost(literal.args[1], state)
           + Abs(getPosition(literal.args[2], state)[1] - 1 - state.arm)
    [] OTHER -> 0

estimatedCostLiteral(literal, state) ==
  IF literalHolds(literal, state) THEN 0
  ELSE notHoldingCost(literal, state, IF state.holding = Null THEN 1 ELSE 2)

\* a goal test that asks every clause to hold
isGoalEveryClause(node, interpretation) ==
  \A i \in 1 .. Len(interpretation) :
    \A j \in 1 .. Len(interpretation[i]) :
      literalHolds(interpretation[i][j], node.state)

\* StateNode.isGoal: anyValue(interpretation, allValues(conjunction, ...))
isGoal(node, interpretation) ==
  \E i \in 1 .. Len(interpretation) :
    \A j \in 1 .. Len(interpretation[i]) :
      literalHolds(interpretation[i][j], node.state)

SetMax(S) == CHOOSE x \in S : \A y \in S : x >= y
SetMin(S) == CHOOSE x \in S : \A y \in S : x <= y

RECURSIVE sumFrom(_, _, _)
sumFrom(conjunction, state, j) ==
  IF j > Len(conjunction) THEN 0
  ELSE estimatedCostLiteral(conjunction[j], state)
         + sumFrom(conjunction, state, j + 1)

\* a clause that costs the sum of its literals
clauseCostSum(conjunction, state) == sumFrom(conjunction, state, 1)

\* Math.max.apply(null, conjunction.map(estimatedCostLiteral))
clauseCost(conjunction, state) ==
  SetMax({estimatedCostLiteral(conjunction[j], state) :
            j \in 1 .. Len(conjunction)})

\* StateNode.heuristics: Math.min over the clauses of Math.max over the
\* literals; map() evaluates every literal, so any throwing literal throws
heuristicsThrows(node, interpretation) ==
  \E i \in 1 .. Len(interpretation) :
    \E j \in 1 .. Len(interpretation[i]) :
      estimatedCostLiteralThrows(interpretation[i][j], node.state)

\* the first pair of a set of <<clause, literal>> indices, in map() order
firstPair(P) ==
  CHOOSE p \in P :
    \A q \in P : p[1] < q[1] \/ (p[1] = q[1] /\ p[2] <= q[2])

literalIndices(interpretation) ==
  UNION {{<<i, j>> : j \in 1 .. Len(interpretation[i])} :
           i \in 1 .. Len(interpretation)}

literalAt(interpretation, p) == interpretation[p[1]][p[2]]

\* the error heuristics ends in: that of the first literal that throws
heuristicsError(node, interpretation) ==
  estimatedCostLiteralError(
    literalAt(interpretation,
              firstPair({p \in literalIndices(interpretation) :
                           estimatedCostLiteralThrows(
                             interpretation[p[1]][p[2]], node.state)})),
    node.state)

heuristics(node, interpretation) ==
  SetMin({clauseCost(interpretation[i], node.state) :
            i \in 1 .. Len(interpretation)})

\* JSON.stringify of a string or null
stringifyHolding(holding) ==
  IF holding = Null THEN "null" ELSE "\"" \o holding \o "\""

\* StateNode.toString: JSON.stringify(this); objects and examples are the
\* same in every node of a call
toString(node) ==
  <<node.move, node.state.stacks, stringifyHolding(node.state.holding),
    node.state.arm>>

compareTo(first, other) ==
  IF toString(first) = toString(other) THEN 0 ELSE 100

-----------------------------------------------------------------------------
(* Block world: the state model (Planner.ts) *)

\* JSON.stringify(state).length: at least the braces, the keys' brackets and
\* one character per stack, stored object and digit of the arm
RECURSIVE stacksLength(_, _)
stacksLength(stacks, x) ==
  IF x > Len(stacks) THEN 0
  ELSE 2 + Len(stacks[x]) + stacksLength(stacks, x + 1)

stringifyLength(state) == 2 + stacksLength(state.stacks, 1) + 1

\* the six stacking rules of canDrop, for the attributes of the held object
\* and of the object on top of the (non-empty) stack under the arm
stackingRules(objectHeld, top) ==
  ~ \/ (objectHeld.form = "ball" /\ top.form # "box")
    \/ top.form = "ball"
    \/ (top.size = "small" /\ objectHeld.size = "large")
    \/ /\ top.form = "box"
       /\ top.size = objectHeld.size
       /\ objectHeld.form \in {"pyramid", "plank", "box"}
    \/ /\ objectHeld.form = "box" /\ objectHeld.size = "small"
       /\ top.size = "small"
       /\ top.form \in {"brick", "pyramid"}
    \/ /\ objectHeld.form = "box" /\ objectHeld.size = "large"
       /\ top.form = "pyramid" /\ top.size = "large"

topOf(stack) == At(stack, Len(stack) - 1)

\* canDrop below its first two statements, on a non-empty stack under the arm
canDropRules(state) ==
  stackingRules(objects[state.holding],
                objects[topOf(At(state.stacks, state.arm))])

\* the first statement of canDrop: JSON.stringify(state).length > 0
canDropGuard(state) == stringifyLength(state) > 0

\* on an empty stack objectOnTopOfStack is undefined and reading its size
\* is a TypeError
canDropThrows(state) ==
  /\ ~canDropGuard(state)
  /\ state.holding # Null
  /\ Len(At(state.stacks, state.arm)) = 0

\* a canDrop that allows every drop of a held object
canDropAnything(state) == state.holding # Null

canDrop(state) ==
  IF canDropGuard(state) THEN FALSE
  ELSE IF state.holding = Null THEN FALSE
  ELSE canDropRules(state)

getPossibleMoves(state) ==
  (IF state.holding = Null THEN <<"p">>
   ELSE IF canDrop(state) THEN <<"d">> ELSE <<>>)
  \o (IF state.arm > 0 THEN <<"l">> ELSE <<>>)
  \o (IF state.arm < Len(state.stacks) THEN <<"r">> ELSE <<>>)

\* a pick that leaves the object on its stack
pickFromKeeping(state, under) ==
  IF Len(under) > 0
  THEN [state EXCEPT !.holding = under[Len(under)]]
  ELSE state

pickFrom(state, under) ==
  IF Len(under) > 0
  THEN [state EXCEPT
          !.stacks[state.arm + 1] = SubSeq(under, 1, Len(under) - 1),
          !.holding = under[Len(under)]]
  ELSE state

dropOn(state, under) ==
  [state EXCEPT !.stacks[state.arm + 1] = Append(under, state.holding),
                !.holding = ""]

\* a transition function that trusts getPossibleMoves and moves the arm
\* without looking at the columns
newWorldStateUnguarded(state, move) ==
  CASE move = "l" -> [state EXCEPT !.arm = state.arm - 1]
    [] move = "r" -> [state EXCEPT !.arm = state.arm + 1]
    [] move = "d" -> dropOn(state, At(state.stacks, state.arm))
    [] move = "p" -> pickFrom(state, At(state.stacks, state.arm))
    [] OTHER -> state

newWorldState(state, move) ==
  CASE move = "l" ->
         IF state.arm > 0 THEN [state EXCEPT !.arm = state.arm - 1]
         ELSE state
    [] move = "r" ->
         IF state.arm < Len(state.stacks) - 1
         THEN [state EXCEPT !.arm = state.arm + 1]
         ELSE state
    [] move = "d" -> dropOn(state, At(state.stacks, state.arm))
    [] move = "p" -> pickFrom(state, At(state.stacks, state.arm))
    [] OTHER -> state

Edge(from, to, cost) == [from |-> from, to |-> to, cost |-> cost]

edgeFor(node, moves, m) ==
  IF indexOf(moves, m) > -1
  THEN <<Edge(node, StateNode(m, newWorldState(node.state, m)), 1)>>
  ELSE <<>>

edgesFor(node, moves) ==
  edgeFor(node, moves, "p") \o edgeFor(node, moves, "d")
    \o edgeFor(node, moves, "l") \o edgeFor(node, moves, "r")

\* StateGraph.outgoingEdges: one edge per possible move, in the order p d l r
outgoingEdges(node) == edgesFor(node, getPossibleMoves(node.state))

\* getPossibleMoves throws when canDrop is asked and throws
outgoingEdgesThrow(node) ==
  node.state.holding # Null /\ canDropThrows(node.state)

compareNodes(first, second) == compareTo(first, second)

-----------------------------------------------------------------------------
(* The graph abstraction handed to aStarSearch: the StateGraph of the       *)
(* planner, or the explicit graph of the engine harness                    *)

InPlan == pc = "plan"

\* graph.outgoingEdges(node)
edgesOf(node) == IF InPlan THEN outgoingEdges(node) ELSE graph[node]
edgesOfThrow(node) == IF InPlan THEN outgoingEdgesThrow(node) ELSE FALSE
edgesOfError == "TypeError: Cannot read property 'size' of undefined"

\* costNodesEqual: graph.compareNodes(first.node, second.node) == 0
costNodesEqual(first, second) ==
  IF InPlan THEN compareNodes(first.node, second.node) = 0
  ELSE first.node = second.node

\* the key of a node in collections.Set and collections.Dictionary
keyOf(node) == IF InPlan THEN toString(node) ELSE node

\* the goal and heuristics callbacks
goal(node) ==
  IF InPlan THEN isGoal(node, At(interpretations, cur)) ELSE node \in goals

heuristicsOf(node) ==
  IF InPlan THEN heuristics(node, At(interpretations, cur)) ELSE hvals[node]

heuristicsOfThrows(node) ==
  IF InPlan THEN heuristicsThrows(node, At(interpretations, cur)) ELSE FALSE

heuristicsOfError(node) ==
  IF InPlan THEN heuristicsError(node, At(interpretations, cur)) ELSE ""

-----------------------------------------------------------------------------
(* CostNode: a node with its g-cost, h-cost and f-cost *)

CostNode(node, gCost, hCost) ==
  [node |-> node, gCost |-> gCost, hCost |-> hCost, fCost |-> gCost + hCost]

setGCost(cn, gCost) ==
  [cn EXCEPT !.gCost = gCost, !.fCost = gCost + cn.hCost]

\* "Comparison of 2 Nodes, where they are never the same."
compareFValue(first, second) ==
  LET difference == first.fCost - second.fCost
  IN  IF difference # 0 THEN difference ELSE 1

-----------------------------------------------------------------------------
(* Heap *)

leftChildIndex(nodeIndex) == (2 * nodeIndex) + 1
rightChildIndex(nodeIndex) == (2 * nodeIndex) + 2
\* Math.floor((nodeIndex - 1) / 2); \div rounds down as Math.floor does
parentIndex(nodeIndex) == (nodeIndex - 1) \div 2

\* minIndex that never looks at the right child
minIndexLeftOnly(data, leftChild, rightChild) ==
  IF leftChild >= Len(data) THEN -1 ELSE leftChild

minIndex(data, leftChild, rightChild) ==
  IF rightChild >= Len(data)
  THEN IF leftChild >= Len(data) THEN -1 ELSE leftChild
  ELSE IF compareFValue(At(data, leftChild), At(data, rightChild)) <= 0
       THEN leftChild
       ELSE rightChild

\* a sift up that stops after one swap
siftUpOnce(data, index) ==
  IF index > 0
       /\ compareFValue(At(data, parentIndex(index)), At(data, index)) > 0
  THEN swap(data, parentIndex(index), index)
  ELSE data

RECURSIVE siftUp(_, _)
siftUp(data, index) ==
  LET parent == parentIndex(index)
  IN  IF index > 0 /\ compareFValue(At(data, parent), At(data, index)) > 0
      THEN siftUp(swap(data, parent, index), parent)
      ELSE data

RECURSIVE siftDown(_, _)
siftDown(data, nodeIndex) ==
  LET min == minIndex(data, leftChildIndex(nodeIndex),
                      rightChildIndex(nodeIndex))
  IN  IF min >= 0 /\ compareFValue(At(data, nodeIndex), At(data, min)) > 0
      THEN siftDown(swap(data, min, nodeIndex), min)
      ELSE data

\* Heap.add: push, then sift the new last slot up
HeapAdd(data, element) == siftUp(Append(data, element), Len(data))

\* Heap.update: sift up from the slot of the (already re-ranked) element
HeapUpdate(data, element) == siftUp(data, indexOf(data, element))

\* Heap.removeRoot, the array it leaves behind
HeapAfterRemoveRoot(data) ==
  IF Len(data) > 0
  THEN LET moved == SubSeq([data EXCEPT ![1] = data[Len(data)]],
                           1, Len(data) - 1)
       IN  IF Len(moved) > 0 THEN siftDown(moved, 0) ELSE moved
  ELSE data

\* Heap.removeRoot, the value it returns
HeapRoot(data) ==
  IF Len(data) > 0
  THEN [kind |-> "element", element |-> data[1]]
  ELSE [kind |-> "undefined"]

\* Heap.getElement: the slot of the first stored element equal to the probe
\* under the heap's equals (costNodesEqual), -1 for null
RECURSIVE getElementFrom(_, _, _)
getElementFrom(data, element, i) ==
  IF i >= Len(data) THEN -1
  ELSE IF costNodesEqual(element, At(data, i)) THEN i
  ELSE getElementFrom(data, element, i + 1)

getElement(data, element) == getElementFrom(data, element, 0)

isEmpty(data) == Len(data) <= 0

-----------------------------------------------------------------------------
(* aStarSearch, generic over the graph abstraction *)

Range(seq) == {seq[i] : i \in 1 .. Len(seq)}

RECURSIVE Reverse(_)
Reverse(seq) ==
  IF seq = <<>> THEN <<>> ELSE Append(Reverse(Tail(seq)), Head(seq))

\* the comparison with <= for <
TimedOutInclusive == ~(now <= timeout * 1000)

\* the comparison against a budget scaled to milliseconds twice
TimedOutScaledTwice == ~(now < timeout * 1000 * 1000)

\* !((startTime + Date.now()) < timeout) with timeout *= 1000
TimedOut == ~(now < timeout * 1000)

\* "Collects path nodes": while (!path.contains(start)) { path.add(...) ... }
RECURSIVE collectPath(_, _, _)
collectPath(preds, node, path) ==
  IF start \in Range(path) \/ node = start
  THEN IF start \in Range(path) THEN path ELSE Append(path, node)
  ELSE collectPath(preds, preds[keyOf(node)], Append(path, node))

\* the first branch of the edge loop: the target is not in the open queue
addNew(acc, edge, currentNode) ==
  IF heuristicsOfThrows(edge.to)
  THEN [acc EXCEPT !.threw = TRUE, !.error = heuristicsOfError(edge.to)]
  ELSE [open  |-> HeapAdd(acc.open,
                          CostNode(edge.to, currentNode.gCost + edge.cost,
                                   heuristicsOf(edge.to))),
        preds |-> (keyOf(edge.to) :> currentNode.node) @@ acc.preds,
        threw |-> FALSE, error |-> ""]

\* the update of a cheaper path without predecessors.setValue
storeUpdatedKeepingPredecessor(acc, edge, currentNode, slot, node) ==
  [open  |-> HeapUpdate([acc.open EXCEPT ![slot + 1] = node], node),
   preds |-> acc.preds,
   threw |-> FALSE, error |-> ""]

\* node is the stored element after node.setGCost
storeUpdated(acc, edge, currentNode, slot, node) ==
  [open  |-> HeapUpdate([acc.open EXCEPT ![slot + 1] = node], node),
   preds |-> (keyOf(edge.to) :> currentNode.node) @@ acc.preds,
   threw |-> FALSE, error |-> ""]

\* the second branch without the update of a cheaper path
improveNever(acc, edge, currentNode, slot) == acc

\* the second branch: the target is in the open queue, at slot
improve(acc, edge, currentNode, slot) ==
  IF currentNode.gCost + edge.cost < At(acc.open, slot).gCost
  THEN storeUpdated(acc, edge, currentNode, slot,
                    setGCost(At(acc.open, slot),
                             currentNode.gCost + edge.cost))
  ELSE acc

\* the body of the edge loop without its test of the closed set
visitEdgeIgnoringClosed(acc, edge, currentNode, closed, slot) ==
  IF slot = -1 THEN addNew(acc, edge, currentNode)
  ELSE improve(acc, edge, currentNode, slot)

\* the body of the edge loop for one edge; slot is what getElement found
visitEdge(acc, edge, currentNode, closed, slot) ==
  IF keyOf(edge.to) \in closed THEN acc
  ELSE IF slot = -1 THEN addNew(acc, edge, currentNode)
  ELSE improve(acc, edge, currentNode, slot)

\* The for loop over graph.outgoingEdges(currentNode.node), from edge i on.
\* acc = [open, preds, threw, error]
RECURSIVE expandEdges(_, _, _, _, _)
expandEdges(edges, i, currentNode, closed, acc) ==
  IF i > Len(edges) \/ acc.threw THEN acc
  ELSE expandEdges(edges, i + 1, currentNode, closed,
                   visitEdge(acc, edges[i], currentNode, closed,
                             getElement(acc.open,
                                        CostNode(edges[i].to, 0, 0))))

outcome(kind, open, closed, preds, res, error) ==
  [kind |-> kind, open |-> open, closed |-> closed, preds |-> preds,
   result |-> res, error |-> error]

expanded(acc, closed) ==
  outcome(IF acc.threw THEN "error" ELSE "continue",
          acc.open, closed, acc.preds, result, acc.error)

\* the loop body after removeRoot and closedNodes.add
afterPop(currentNode, open1, closed1) ==
  IF goal(currentNode.node)
  THEN outcome("goal", open1, closed1, predecessors,
               [path |-> Reverse(collectPath(predecessors, currentNode.node,
                                             <<>>)),
                cost |-> currentNode.gCost],
               "")
  ELSE IF edgesOfThrow(currentNode.node)
  THEN outcome("error", open1, closed1, predecessors, result, edgesOfError)
  ELSE expanded(expandEdges(edgesOf(currentNode.node), 1, currentNode,
                            closed1,
                            [open |-> open1, preds |-> predecessors,
                             threw |-> FALSE, error |-> ""]),
                closed1)

\* One pass of the while loop once the timeout check has passed:
\* removeRoot, closedNodes.add, the goal test, the expansion.
loopBody ==
  afterPop(At(openNodes, 0), HeapAfterRemoveRoot(openNodes),
           closedNodes \cup {keyOf(At(openNodes, 0).node)})

-----------------------------------------------------------------------------
(* Heap harness: any sequence of add, key decrease + update, removeRoot *)

HeapIds == 1 .. MaxHeap

StoredIds == {openNodes[i].node : i \in 1 .. Len(openNodes)}

SearchIdle ==
  /\ closedNodes = {}
  /\ predecessors = <<>>
  /\ result = [path |-> <<>>, cost |-> 0]
  /\ now = 0
  /\ timeout = 0
  /\ start = 0
  /\ graph = <<>>
  /\ goals = {}
  /\ hvals = <<>>
  /\ popped = 0

PlanIdle ==
  /\ interpretations = <<>>
  /\ cur = 0
  /\ plans = <<>>
  /\ errors = <<>>

WalkIdle ==
  /\ walk = 0
  /\ steps = 0

EvalIdle ==
  /\ returned = [kind |-> "none"]
  /\ cmd = Null

BiIdle ==
  /\ openNodesGoal = <<>>
  /\ closedGoalNodes = {}
  /\ goalSuccessors = <<>>

InitHeap ==
  /\ openNodes = <<>>
  /\ removed = [kind |-> "none"]
  /\ pc = "heap"
  /\ SearchIdle
  /\ PlanIdle
  /\ WalkIdle
  /\ EvalIdle
  /\ BiIdle

HeapAddAct ==
  /\ pc = "heap"
  /\ Len(openNodes) < MaxHeap
  /\ \E id \in HeapIds \ StoredIds, g \in 0 .. MaxRank, h \in 0 .. 1 :
       openNodes' = HeapAdd(openNodes, CostNode(id, g, h))
  /\ removed' = [kind |-> "none"]
  /\ UNCHANGED <<pc, searchVars, planVars, walkVars,
                 evalVars, biVars>>

\* node.setGCost(lower); openNodes.update(node)  (Graph.ts:374-375)
HeapUpdateAct ==
  /\ pc = "heap"
  /\ \E i \in 0 .. Len(openNodes) - 1 :
       \E g \in 0 .. MaxRank :
         /\ g < At(openNodes, i).gCost
         /\ LET element == setGCost(At(openNodes, i), g)
                stored == [openNodes EXCEPT ![i + 1] = element]
            IN  openNodes' = HeapUpdate(stored, element)
  /\ removed' = [kind |-> "none"]
  /\ UNCHANGED <<pc, searchVars, planVars, walkVars,
                 evalVars, biVars>>

HeapRemoveRootAct ==
  /\ pc = "heap"
  /\ removed' = HeapRoot(openNodes)
  /\ openNodes' = HeapAfterRemoveRoot(openNodes)
  /\ UNCHANGED <<pc, searchVars, planVars, walkVars,
                 evalVars, biVars>>

NextHeap == HeapAddAct \/ HeapUpdateAct \/ HeapRemoveRootAct

SpecHeap == InitHeap /\ [][NextHeap]_vars

\* new CostNode(...): a second object with these fields, which === and
\* Array.indexOf tell from every object that is stored
newObject(cn) ==
  [node |-> cn.node, gCost |-> cn.gCost, hCost |-> cn.hCost,
   fCost |-> cn.fCost, object |-> "new"]

\* stored.setGCost(lower); openNodes.update(new CostNode(stored.node, 0, 0)):
\* update is handed an element that equals the stored one under the heap's
\* equals, as the probe of Graph.ts:367 does, and is not the stored object
HeapUpdateEqualAct ==
  /\ pc = "heap"
  /\ \E i \in 0 .. Len(openNodes) - 1 :
       \E g \in 0 .. MaxRank :
         /\ g < At(openNodes, i).gCost
         /\ costNodesEqual(newObject(CostNode(At(openNodes, i).node, 0, 0)),
                           At(openNodes, i))
         /\ openNodes'
              = HeapUpdate([openNodes EXCEPT
                              ![i + 1] = setGCost(At(openNodes, i), g)],
                           newObject(CostNode(At(openNodes, i).node, 0, 0)))
  /\ removed' = [kind |-> "none"]
  /\ UNCHANGED <<pc, searchVars, planVars, walkVars,
                 evalVars, biVars>>

NextHeapEqual ==
  HeapAddAct \/ HeapUpdateAct \/ HeapUpdateEqualAct \/ HeapRemoveRootAct

SpecHeapEqual == InitHeap /\ [][NextHeapEqual]_vars

-----------------------------------------------------------------------------
(* C8: every removeRoot returns an element of minimal rank *)

\* C8: after any sequence of add, update (following a key decrease) and
\* removeRoot, the element removeRoot returned has a rank (fCost) no larger
\* than the rank of every element still stored.
HeapRemovesMinimum ==
  removed.kind = "element" =>
    \A i \in 1 .. Len(openNodes) : removed.element.fCost <= openNodes[i].fCost

\* a removeRoot has returned an element while at least two elements stay
\* behind, one of them of strictly larger rank
HeapRemovesMinimumWitness ==
  /\ removed.kind = "element"
  /\ Len(openNodes) >= 2
  /\ \E i \in 1 .. Len(openNodes) : openNodes[i].fCost > removed.element.fCost

-----------------------------------------------------------------------------
(* Engine harness: aStarSearch on explicit finite graphs *)

Nodes == 1 .. NumNodes

\* ordered node pairs that may carry an edge: every forward pair
EdgePairs == {p \in Nodes \X Nodes : p[1] < p[2]}

\* the edges leaving node n, in target order, for a cost table c (0: no edge)
RECURSIVE edgesFrom(_, _, _)
edgesFrom(c, n, j) ==
  IF j > NumNodes THEN <<>>
  ELSE IF <<n, j>> \in EdgePairs /\ c[<<n, j>>] > 0
       THEN <<[to |-> j, cost |-> c[<<n, j>>]]>> \o edgesFrom(c, n, j + 1)
       ELSE edgesFrom(c, n, j + 1)

\* the cost of the edge from n to m in the explicit graph, 0 without one
edgeCost(n, m) ==
  IF \E i \in 1 .. Len(graph[n]) : graph[n][i].to = m
  THEN graph[n][CHOOSE i \in 1 .. Len(graph[n]) : graph[n][i].to = m].cost
  ELSE 0

InitSearch ==
  /\ \E c \in [EdgePairs -> 0 .. MaxCost] :
       graph = [n \in Nodes |-> edgesFrom(c, n, 1)]
  /\ goals \in {{NumNodes}, {1, NumNodes}}
  /\ hvals \in {h \in [Nodes -> 0 .. MaxH] : h[1] = 0 /\ h[NumNodes] = 0}
  /\ timeout \in {0, 1}
  /\ start = 1
  /\ now = 0
  /\ result = [path |-> <<1>>, cost |-> 0]
  /\ closedNodes = {}
  /\ predecessors = (1 :> 1)
  /\ openNodes = HeapAdd(<<>>, CostNode(1, 0, 0))
  /\ popped = 0
  /\ removed = [kind |-> "none"]
  /\ pc = "search"
  /\ PlanIdle
  /\ WalkIdle
  /\ EvalIdle
  /\ BiIdle

\* the wall clock advances between two statements of the call
Tick ==
  /\ pc \in {"search", "plan", "bisearch"}
  /\ now < MaxNow
  /\ now' = now + TickMs
  /\ UNCHANGED <<openNodes, removed, closedNodes, predecessors, result, pc,
                 timeout, start, graph, goals, hvals, popped, planVars,
                 walkVars, evalVars, biVars>>

\* while (!openNodes.isEmpty()) fails: return result as initialised
SearchEmpty ==
  /\ pc = "search"
  /\ isEmpty(openNodes)
  /\ pc' = "returned"
  /\ UNCHANGED <<openNodes, removed, closedNodes, predecessors, result, now,
                 timeout, start, graph, goals, hvals, popped, planVars,
                 walkVars, evalVars, biVars>>

\* throw Error("Search Timed Out")
SearchTimeout ==
  /\ pc = "search"
  /\ ~isEmpty(openNodes)
  /\ TimedOut
  /\ pc' = "timeout"
  /\ UNCHANGED <<openNodes, removed, closedNodes, predecessors, result, now,
                 timeout, start, graph, goals, hvals, popped, planVars,
                 walkVars, evalVars, biVars>>

\* the search variables after a pass of the loop body
applyOutcome(out) ==
  /\ openNodes' = out.open
  /\ closedNodes' = out.closed
  /\ predecessors' = out.preds
  /\ result' = out.result
  /\ popped' = popped + 1

SearchStep ==
  /\ pc = "search"
  /\ ~isEmpty(openNodes)
  /\ ~TimedOut
  /\ applyOutcome(loopBody)
  /\ pc' = IF goal(At(openNodes, 0).node) THEN "returned" ELSE "search"
  /\ UNCHANGED <<removed, now, timeout, start, graph, goals, hvals, planVars,
                 walkVars, evalVars, biVars>>

NextSearch == Tick \/ SearchEmpty \/ SearchTimeout \/ SearchStep

SpecSearch == InitSearch /\ [][NextSearch]_vars

-----------------------------------------------------------------------------
(* Planner.plan and planInterpretation *)

\* the timeout planInterpretation hands to aStarSearch, in seconds
PlannerTimeout == 5

\* result.path.forEach(node => if (node.move.length > 0) actions.push(...))
RECURSIVE movesOf(_, _)
movesOf(path, i) ==
  IF i > Len(path) THEN <<>>
  ELSE IF Len(path[i].move) > 0
       THEN <<path[i].move>> \o movesOf(path, i + 1)
       ELSE movesOf(path, i + 1)

\* result.path.map(node => node.move), the line the source comments out
planInterpretationUnfiltered(res) ==
  [i \in 1 .. Len(res.path) |-> res.path[i].move]

\* planInterpretation, given what aStarSearch returned
planInterpretation(res) == movesOf(res.path, 1)

AlreadyTrue == "That is already true!"

\* if (result.plan.length == 0) result.plan.push("That is already true!")
renderPlan(actions) ==
  IF Len(actions) = 0 THEN <<AlreadyTrue>> ELSE actions

\* the interpretation, augmented with its plan
PlannerResult(interpretation, actions) ==
  [interpretation |-> interpretation, plan |-> actions]

\* the state of a search
searchIs(open, closed, preds, res, n, t) ==
  /\ openNodes' = open
  /\ closedNodes' = closed
  /\ predecessors' = preds
  /\ result' = res
  /\ popped' = n
  /\ now' = t

\* aStarSearch up to its loop, on the StateGraph (Graph.ts:283-320)
startSearch ==
  searchIs(HeapAdd(<<>>, CostNode(start, 0, 0)), {},
           (toString(start) :> start), [path |-> <<start>>, cost |-> 0],
           0, 0)

\* plan without its try and catch: the first failure of a candidate ends
\* the call
candidateDoneAborting(newPlans, newErrors, open, closed, preds, res, n) ==
  /\ plans' = newPlans
  /\ errors' = newErrors
  /\ IF cur + 1 < Len(interpretations) /\ Len(newErrors) = 0
     THEN /\ cur' = cur + 1
          /\ pc' = "plan"
          /\ startSearch
     ELSE /\ cur' = cur
          /\ pc' = IF Len(newErrors) = 0 THEN "done" ELSE "thrown"
          /\ searchIs(open, closed, preds, res, n, now)

\* One callback of interpretations.forEach is over, with these plans and
\* errors; forEach goes on to the next candidate, or plan returns or throws.
candidateDone(newPlans, newErrors, open, closed, preds, res, n) ==
  /\ plans' = newPlans
  /\ errors' = newErrors
  /\ IF cur + 1 < Len(interpretations)
     THEN /\ cur' = cur + 1
          /\ pc' = "plan"
          /\ startSearch
     ELSE /\ cur' = cur
          /\ pc' = IF Len(newPlans) > 0 THEN "done" ELSE "thrown"
          /\ searchIs(open, closed, preds, res, n, now)

\* throw errors[0]
thrownError == At(errors, 0)

planned(res) ==
  Append(plans, PlannerResult(At(interpretations, cur),
                              renderPlan(planInterpretation(res))))

\* the planner after a pass of the loop body of the running search
planOutcome(out) ==
  CASE out.kind = "continue" ->
         /\ searchIs(out.open, out.closed, out.preds, out.result,
                     popped + 1, now)
         /\ UNCHANGED <<pc, cur, plans, errors>>
    [] out.kind = "goal" ->
         candidateDone(planned(out.result), errors, out.open, out.closed,
                       out.preds, out.result, popped + 1)
    [] out.kind = "error" ->
         candidateDone(plans, Append(errors, out.error), out.open,
                       out.closed, out.preds, out.result, popped + 1)

PlanStep ==
  /\ pc = "plan"
  /\ ~isEmpty(openNodes)
  /\ ~TimedOut
  /\ planOutcome(loopBody)
  /\ UNCHANGED <<removed, timeout, start, graph, goals, hvals,
                 interpretations, walkVars,
                 evalVars, biVars>>

\* the open queue is empty: aStarSearch returns result as initialised
PlanEmpty ==
  /\ pc = "plan"
  /\ isEmpty(openNodes)
  /\ candidateDone(planned(result), errors, openNodes, closedNodes,
                   predecessors, result, popped)
  /\ UNCHANGED <<removed, timeout, start, graph, goals, hvals,
                 interpretations, walkVars,
                 evalVars, biVars>>

\* aStarSearch throws Error("Search Timed Out"); plan catches it
PlanTimeout ==
  /\ pc = "plan"
  /\ ~isEmpty(openNodes)
  /\ TimedOut
  /\ candidateDone(plans, Append(errors, "Search Timed Out"), openNodes,
                   closedNodes, predecessors, result, popped)
  /\ UNCHANGED <<removed, timeout, start, graph, goals, hvals,
                 interpretations, walkVars,
                 evalVars, biVars>>

-----------------------------------------------------------------------------
(* Planner harness: Planner.plan on small worlds and formulas *)

\* the objects the formulas of the small worlds are about
PlanIds == {"a", "b"}

Injective(seq) ==
  \A i, j \in 1 .. Len(seq) : i # j => seq[i] # seq[j]

\* stacks (bottom first) over ids in which every object rests on the one
\* below it without breaking a stacking rule
Towers(ids) ==
  {t \in UNION {[1 .. n -> ids] : n \in 0 .. Cardinality(ids)} :
     /\ Injective(t)
     /\ \A i \in 1 .. Len(t) - 1 :
          stackingRules(objects[t[i + 1]], objects[t[i]])}

\* the worlds of k columns over ids: no object twice, the arm over a column,
\* and holding nothing or an object that is in no stack
Worlds(ids, k) ==
  {w \in [stacks : [1 .. k -> Towers(ids)],
          holding : ids \cup {Null},
          arm : 0 .. k - 1] :
     /\ \A x, y \in 1 .. k :
          x # y => Range(w.stacks[x]) \cap Range(w.stacks[y]) = {}
     /\ \A x \in 1 .. k : w.holding \notin Range(w.stacks[x])}

\* the worlds in which nothing is held and every object stands in a stack
FullWorlds(ids, k) ==
  {w \in Worlds(ids, k) :
     /\ w.holding = Null
     /\ \A o \in ids : \E x \in 1 .. k : o \in Range(w.stacks[x])}

HoldingLiterals(ids) == {Literal("holding", <<x>>) : x \in ids}

BinaryLiterals(ids) ==
  {Literal(r, <<p[1], p[2]>>) :
     r \in BinaryRelations, p \in {q \in ids \X ids : q[1] # q[2]}}

FloorLiterals(ids) ==
  {Literal(r, <<x, "floor">>) : r \in {"ontop", "above"}, x \in ids}

Literals(ids) ==
  HoldingLiterals(ids) \cup BinaryLiterals(ids) \cup FloorLiterals(ids)

\* DNF formulas: one literal; a relation or something held; an object on
\* the floor while another is held
Formulas ==
  {<<<<l>>>> : l \in Literals(PlanIds)}
    \cup {<<<<l>>, <<h>>>> :
            l \in BinaryLiterals(PlanIds), h \in HoldingLiterals(PlanIds)}
    \cup {<<<<l, h>>>> :
            l \in FloorLiterals(PlanIds), h \in HoldingLiterals(PlanIds)}

\* the candidates of a call: one formula, or two formulas that ask for
\* something to be held
InterpretationLists ==
  {<<f>> : f \in Formulas}
    \cup {<<<<<<f>>>>, <<<<g>>>>>> :
            f \in HoldingLiterals(PlanIds), g \in HoldingLiterals(PlanIds)}

\* for the wide worlds: a relation between a and b, or c held
WideInterpretationLists ==
  {<<<<<<l>>, <<Literal("holding", <<"c">>)>>>>>> :
     l \in BinaryLiterals(PlanIds)}

InitPlan ==
  /\ pc = "plan"
  /\ \/ /\ interpretations \in InterpretationLists
        /\ start \in {StateNode("", w) : w \in Worlds(ObjectIds, SmallStacks)}
     \/ /\ interpretations \in WideInterpretationLists
        /\ start \in {StateNode("", w) : w \in FullWorlds(ObjectIds, NumStacks)}
  /\ cur = 0
  /\ plans = <<>>
  /\ errors = <<>>
  /\ timeout = PlannerTimeout
  /\ now = 0
  /\ result = [path |-> <<start>>, cost |-> 0]
  /\ closedNodes = {}
  /\ predecessors = (toString(start) :> start)
  /\ openNodes = HeapAdd(<<>>, CostNode(start, 0, 0))
  /\ popped = 0
  /\ removed = [kind |-> "none"]
  /\ graph = <<>>
  /\ goals = {}
  /\ hvals = <<>>
  /\ WalkIdle
  /\ EvalIdle
  /\ BiIdle

NextPlan == Tick \/ PlanEmpty \/ PlanTimeout \/ PlanStep

SpecPlan == InitPlan /\ [][NextPlan]_vars

-----------------------------------------------------------------------------
(* State-model harness: walks along the edges of the StateGraph *)

MaxSteps == 3       \* edges a walk of the harness follows at most

\* the literal the walk is about
walkLiteral == interpretations[1][1][1]

InitMoves ==
  /\ pc = "walk"
  /\ start \in {StateNode("", w) : w \in Worlds(ObjectIds, SmallStacks)}
  /\ interpretations \in {<<<<<<l>>>>>> : l \in Literals(ObjectIds)}
  /\ walk = start
  /\ steps = 0
  /\ EvalIdle
  /\ BiIdle
  /\ cur = 0
  /\ plans = <<>>
  /\ errors = <<>>
  /\ openNodes = <<>>
  /\ removed = [kind |-> "none"]
  /\ closedNodes = {}
  /\ predecessors = <<>>
  /\ result = [path |-> <<>>, cost |-> 0]
  /\ now = 0
  /\ timeout = 0
  /\ graph = <<>>
  /\ goals = {}
  /\ hvals = <<>>
  /\ popped = 0

\* follow one of graph.outgoingEdges(walk)
WalkEdge ==
  /\ pc = "walk"
  /\ steps < MaxSteps
  /\ ~outgoingEdgesThrow(walk)
  /\ \E i \in 1 .. Len(outgoingEdges(walk)) :
       walk' = outgoingEdges(walk)[i].to
  /\ steps' = steps + 1
  /\ UNCHANGED <<openNodes, removed, pc, searchVars, planVars, evalVars, biVars>>

NextMoves == WalkEdge

SpecMoves == InitMoves /\ [][NextMoves]_vars

-----------------------------------------------------------------------------
(* Evaluation harness: StateNode.heuristics, StateNode.isGoal and         *)
(* literalHolds, called once on a world and a formula                      *)

\* no clause; one empty clause; one literal over all objects; a clause of
\* two literals and two clauses of one literal over a and b
EvalFormulas ==
  {<<>>, <<<<>>>>}
    \cup {<<<<l>>>> : l \in Literals(ObjectIds)}
    \cup {<<<<l, m>>>> : l \in Literals(PlanIds), m \in Literals(PlanIds)}
    \cup {<<<<l>>, <<m>>>> : l \in Literals(PlanIds), m \in Literals(PlanIds)}

\* the formula the functions are called with
evalFormula == interpretations[1]

InitEval ==
  /\ pc = "eval"
  /\ start \in {StateNode("", w) : w \in Worlds(ObjectIds, SmallStacks)}
  /\ interpretations \in {<<f>> : f \in EvalFormulas}
  /\ EvalIdle
  /\ BiIdle
  /\ WalkIdle
  /\ cur = 0
  /\ plans = <<>>
  /\ errors = <<>>
  /\ openNodes = <<>>
  /\ removed = [kind |-> "none"]
  /\ closedNodes = {}
  /\ predecessors = <<>>
  /\ result = [path |-> <<>>, cost |-> 0]
  /\ now = 0
  /\ timeout = 0
  /\ graph = <<>>
  /\ goals = {}
  /\ hvals = <<>>
  /\ popped = 0

\* Math.min.apply(null, []) is Infinity and Math.max.apply(null, []) is
\* -Infinity, which is below every number
heuristicsValue(node, interpretation) ==
  IF Len(interpretation) = 0 THEN "Infinity"
  ELSE IF \E i \in 1 .. Len(interpretation) : Len(interpretation[i]) = 0
       THEN "-Infinity"
       ELSE heuristics(node, interpretation)

\* start.heuristics(formula)
EvalHeuristics ==
  /\ pc = "eval"
  /\ returned.kind = "none"
  /\ returned'
       = IF heuristicsThrows(start, evalFormula)
         THEN [kind |-> "error",
               error |-> heuristicsError(start, evalFormula)]
         ELSE [kind |-> "heuristics",
               value |-> heuristicsValue(start, evalFormula)]
  /\ UNCHANGED <<openNodes, removed, pc, searchVars, planVars, walkVars,
                 cmd, biVars>>

\* start.isGoal(formula)
EvalIsGoal ==
  /\ pc = "eval"
  /\ returned.kind = "none"
  /\ returned' = [kind |-> "isGoal", value |-> isGoal(start, evalFormula)]
  /\ UNCHANGED <<openNodes, removed, pc, searchVars, planVars, walkVars,
                 cmd, biVars>>

\* literalHolds(literal, start.state) for a literal of the formula
EvalLiteralHolds ==
  /\ pc = "eval"
  /\ returned.kind = "none"
  /\ \E p \in literalIndices(evalFormula) :
       returned' = [kind |-> "literalHolds",
                    literal |-> literalAt(evalFormula, p),
                    value |-> literalHolds(literalAt(evalFormula, p),
                                           start.state)]
  /\ UNCHANGED <<openNodes, removed, pc, searchVars, planVars, walkVars,
                 cmd, biVars>>

NextEval == EvalHeuristics \/ EvalIsGoal \/ EvalLiteralHolds

SpecEval == InitEval /\ [][NextEval]_vars

-----------------------------------------------------------------------------
(* Interpreter: interpretCommand and the interpretation strategies         *)
(* (Interpreter.ts, InterpretationStrategy.ts)                             *)

\* a description of the parser without a nested location, and with no
\* color: {size, form}
Description(size, form) == [size |-> size, form |-> form]

\* Parser.Entity and Parser.Location
Entity(quantifier, object) == [quantifier |-> quantifier, object |-> object]
Location(relation, entity) == [relation |-> relation, entity |-> entity]

\* Parser.Command
Command(entity, location) == [entity |-> entity, location |-> location]

\* the location of a take command: cmd.location == null
NoLocation == [relation |-> Null]
hasLocation(command) == command.location.relation # Null

getObject(state, x, y) ==
  IF y < 0 THEN "floor" ELSE At(At(state.stacks, x), y)

\* objectMatchesCommand, for a description that names size and form
objectMatchesCommand(state, stateObjectId, object) ==
  /\ ~(object.size # Null /\ object.size # objects[stateObjectId].size)
  /\ ~(/\ object.form # Null
       /\ object.form # "anyform"
       /\ object.form # objects[stateObjectId].form)

\* isObjectValid, for a description without a location
isObjectValid(state, x, y, object) ==
  IF getObject(state, x, y) = "floor" THEN object.form = "floor"
  ELSE objectMatchesCommand(state, getObject(state, x, y), object)

\* the objects of a stack, from position y on, that match the description
RECURSIVE validInStack(_, _, _, _)
validInStack(state, x, y, object) ==
  IF y >= Len(At(state.stacks, x)) THEN <<>>
  ELSE (IF isObjectValid(state, x, y, object)
        THEN <<getObject(state, x, y)>> ELSE <<>>)
         \o validInStack(state, x, y + 1, object)

\* for x, for y: if (isObjectValid(state, x, y, object)) push
RECURSIVE validInStacks(_, _, _)
validInStacks(state, x, object) ==
  IF x >= Len(state.stacks) THEN <<>>
  ELSE validInStack(state, x, 0, object)
         \o validInStacks(state, x + 1, object)

\* the held object, when it matches the description
validHeld(state, object) ==
  IF state.holding # Null
       /\ objectMatchesCommand(state, state.holding, object)
  THEN <<state.holding>> ELSE <<>>

\* the objects list of interpretCommand
objectsOf(command, state) ==
  validInStacks(state, 0, command.entity.object)
    \o validHeld(state, command.entity.object)

\* the targets list of interpretCommand
targetsOf(command, state) ==
  IF ~hasLocation(command) THEN <<>>
  ELSE (IF command.location.entity.object.form = "floor"
        THEN <<"floor">> ELSE <<>>)
         \o validInStacks(state, 0, command.location.entity.object)
         \o validHeld(state, command.location.entity.object)

\* the six rules of physicalLaws, for the attributes of object and target
lawsBroken(relation, object, target) ==
  \/ /\ object.form = "ball"
     /\ \/ (relation = "inside" /\ target.form # "box")
        \/ (relation = "ontop" /\ target.form # "floor")
  \/ (target.form = "ball" /\ relation \in {"ontop", "above"})
  \/ /\ target.size = "small" /\ object.size = "large"
     /\ relation \in {"ontop", "inside"}
  \/ /\ target.form = "box" /\ target.size = object.size
     /\ object.form \in {"pyramid", "plank", "box"}
     /\ relation \in {"ontop", "inside"}
  \/ /\ object.form = "box"
     /\ target.form \in {"brick", "pyramid"}
     /\ target.size = "small" /\ object.size = "small"
     /\ relation \in {"ontop", "above"}
  \/ /\ object.form = "box" /\ object.size = "large"
     /\ target.form = "pyramid" /\ target.size = "large"
     /\ relation \in {"ontop", "above"}

\* physicalLaws without its test objectId == targetId
physicalLawsOfSelf(command, objectId, targetId) ==
  IF targetId = "floor"
  THEN /\ command.location.relation \in {"ontop", "above"}
       /\ command.location.entity.object.form = "floor"
  ELSE ~lawsBroken(command.location.relation, objects[objectId],
                   objects[targetId])

physicalLaws(command, objectId, targetId) ==
  IF targetId = "floor"
  THEN /\ command.location.relation \in {"ontop", "above"}
       /\ command.location.entity.object.form = "floor"
  ELSE IF objectId = targetId THEN FALSE
  ELSE ~lawsBroken(command.location.relation, objects[objectId],
                   objects[targetId])

\* {polarity: true, relation: action, args: [object, target]}
putLiteral(command, objectId, targetId) ==
  Literal(command.location.relation, <<objectId, targetId>>)

\* for the pairs from number k on, object by object and target by target:
\* the literals of the pairs that pass physicalLaws
RECURSIVE passing(_, _, _, _)
passing(command, objs, targets, k) ==
  IF k >= Len(objs) * Len(targets) THEN <<>>
  ELSE (IF physicalLaws(command, At(objs, k \div Len(targets)),
                        At(targets, k % Len(targets)))
        THEN <<putLiteral(command, At(objs, k \div Len(targets)),
                          At(targets, k % Len(targets)))>>
        ELSE <<>>)
         \o passing(command, objs, targets, k + 1)

TakeStrategy(objs) ==
  [i \in 1 .. Len(objs) |-> <<Literal("holding", <<objs[i]>>)>>]

\* one clause of one literal per passing pair
PutOneToOneStrategy(command, objs, targets) ==
  [i \in 1 .. Len(passing(command, objs, targets, 0)) |->
     <<passing(command, objs, targets, 0)[i]>>]

\* one clause with the literals of all passing pairs, pushed even when empty
PutAllToAllStrategy(command, objs, targets) ==
  <<passing(command, objs, targets, 0)>>

\* per object, the clause of its passing pairs when no target failed
RECURSIVE PutAnyToAllFrom(_, _, _, _)
PutAnyToAllFrom(command, objs, targets, i) ==
  IF i >= Len(objs) THEN <<>>
  ELSE (IF Len(passing(command, <<At(objs, i)>>, targets, 0)) = Len(targets)
        THEN <<passing(command, <<At(objs, i)>>, targets, 0)>>
        ELSE <<>>)
         \o PutAnyToAllFrom(command, objs, targets, i + 1)

PutAnyToAllStrategy(command, objs, targets) ==
  PutAnyToAllFrom(command, objs, targets, 0)

\* PutAllToAnyStrategy, the clause of the current choice of targets: the
\* literal of every object whose pair passes
RECURSIVE currentConjunction(_, _, _, _, _)
currentConjunction(command, objs, targets, currentTargets, i) ==
  IF i >= Len(objs) THEN <<>>
  ELSE (IF physicalLaws(command, At(objs, i),
                        At(targets, At(currentTargets, i)))
        THEN <<putLiteral(command, At(objs, i),
                          At(targets, At(currentTargets, i)))>>
        ELSE <<>>)
         \o currentConjunction(command, objs, targets, currentTargets, i + 1)

\* for (j = length - 1; j >= 0; j--): add one to the counter of targets
RECURSIVE nextTargets(_, _, _)
nextTargets(currentTargets, last, j) ==
  IF j < 0 THEN currentTargets
  ELSE IF At(currentTargets, j) # last
       THEN [currentTargets EXCEPT ![j + 1] = @ + 1]
       ELSE nextTargets([currentTargets EXCEPT ![j + 1] = 0], last, j - 1)

\* the while (true) loop of PutAllToAnyStrategy, from the choice
\* currentTargets on; it ends in the pass after the last choice
RECURSIVE allToAnyLoop(_, _, _, _)
allToAnyLoop(command, objs, targets, currentTargets) ==
  (IF Len(currentConjunction(command, objs, targets, currentTargets, 0)) > 0
   THEN <<currentConjunction(command, objs, targets, currentTargets, 0)>>
   ELSE <<>>)
    \o (IF \A i \in 1 .. Len(currentTargets) :
             currentTargets[i] = Len(targets) - 1
        THEN <<>>
        ELSE allToAnyLoop(command, objs, targets,
                          nextTargets(currentTargets, Len(targets) - 1,
                                      Len(currentTargets) - 1)))

\* removeAllValues(interpretation, e => e.length == 1): the clauses kept
RECURSIVE longerThanOne(_, _)
longerThanOne(interpretation, i) ==
  IF i > Len(interpretation) THEN <<>>
  ELSE (IF Len(interpretation[i]) = 1 THEN <<>> ELSE <<interpretation[i]>>)
         \o longerThanOne(interpretation, i + 1)

\* if (anyValue(interpretation, e => e.length > 1))
\*   removeAllValues(interpretation, e => e.length == 1)
dropSingles(interpretation) ==
  IF \E i \in 1 .. Len(interpretation) : Len(interpretation[i]) > 1
  THEN longerThanOne(interpretation, 1)
  ELSE interpretation

\* with objects and no target, physicalLaws reads the form of
\* state.objects[undefined]
PutAllToAnyThrows(objs, targets) == Len(objs) > 0 /\ Len(targets) = 0

PutAllToAnyStrategy(command, objs, targets) ==
  dropSingles(allToAnyLoop(command, objs, targets,
                           [i \in 1 .. Len(objs) |-> 0]))

\* getInterpretationStrategy: the name of the strategy, "none" when it
\* throws
getInterpretationStrategy(command) ==
  IF ~hasLocation(command) THEN "Take"
  ELSE IF command.entity.quantifier = "all"
            /\ command.location.entity.quantifier \in {"the", "any"}
       THEN "PutAllToAny"
  ELSE IF command.entity.quantifier \in {"any", "the"}
            /\ command.location.entity.quantifier \in {"the", "any"}
       THEN "PutOneToOne"
  ELSE IF command.entity.quantifier = "all"
            /\ command.location.entity.quantifier = "all"
       THEN "PutAllToAll"
  ELSE IF command.entity.quantifier = "any"
            /\ command.location.entity.quantifier = "all"
       THEN IF command.location.relation \in {"leftof", "rightof", "inside"}
            THEN "PutAllToAny"
            ELSE "PutAnyToAll"
  ELSE "none"

\* strategy.getInterpretation(objects, targets, relation, physicalLaws)
getInterpretation(strategy, command, objs, targets) ==
  CASE strategy = "Take" -> TakeStrategy(objs)
    [] strategy = "PutOneToOne" -> PutOneToOneStrategy(command, objs, targets)
    [] strategy = "PutAllToAny" -> PutAllToAnyStrategy(command, objs, targets)
    [] strategy = "PutAnyToAll" -> PutAnyToAllStrategy(command, objs, targets)
    [] strategy = "PutAllToAll" -> PutAllToAllStrategy(command, objs, targets)

formulaOrError(interpretation) ==
  IF Len(interpretation) = 0
  THEN [kind |-> "error", error |-> "No valid interpretation"]
  ELSE [kind |-> "formula", value |-> interpretation]

\* interpretCommand, given its objects and targets lists
interpretLists(strategy, command, objs, targets) ==
  IF strategy = "none"
  THEN [kind |-> "error", error |-> "ERROR: No valid interpretation: "]
  ELSE IF strategy = "PutAllToAny" /\ PutAllToAnyThrows(objs, targets)
       THEN [kind |-> "error",
             error |-> "TypeError: Cannot read property 'form' of undefined"]
       ELSE formulaOrError(getInterpretation(strategy, command, objs,
                                             targets))

interpretCommand(command, state) ==
  interpretLists(getInterpretationStrategy(command), command,
                 objectsOf(command, state), targetsOf(command, state))

-----------------------------------------------------------------------------
(* Interpreter harness: interpretCommand on small worlds and commands *)

Quantifiers == {"any", "the", "all"}

\* what a command asks to move
EntityDescriptions ==
  {Description(size, form) :
     size \in {Null, "large"}, form \in {"anyform", "ball", "box", "table"}}

\* where a command asks to put it
LocationDescriptions ==
  {Description(Null, form) :
     form \in {"anyform", "ball", "box", "table", "floor"}}

Commands ==
  {Command(Entity(q, d), l) :
     q \in Quantifiers, d \in EntityDescriptions,
     l \in {NoLocation}
             \cup {Location(r, Entity(lq, ld)) :
                     r \in BinaryRelations, lq \in Quantifiers,
                     ld \in LocationDescriptions}}

InitInterpret ==
  /\ pc = "interpret"
  /\ start \in {StateNode("", w) : w \in Worlds(ObjectIds, SmallStacks)}
  /\ cmd \in Commands
  /\ returned = [kind |-> "none"]
  /\ WalkIdle
  /\ PlanIdle
  /\ BiIdle
  /\ openNodes = <<>>
  /\ removed = [kind |-> "none"]
  /\ closedNodes = {}
  /\ predecessors = <<>>
  /\ result = [path |-> <<>>, cost |-> 0]
  /\ now = 0
  /\ timeout = 0
  /\ graph = <<>>
  /\ goals = {}
  /\ hvals = <<>>
  /\ popped = 0

\* interpretCommand(cmd, start.state)
Interpret ==
  /\ pc = "interpret"
  /\ returned.kind = "none"
  /\ returned' = interpretCommand(cmd, start.state)
  /\ UNCHANGED <<openNodes, removed, pc, searchVars, planVars, walkVars,
                 cmd, biVars>>

NextInterpret == Interpret

SpecInterpret == InitInterpret /\ [][NextInterpret]_vars

-----------------------------------------------------------------------------
(* Transition harness: one call of newWorldState, with the arrays it       *)
(* reads and writes                                                        *)

\* the array of a column of the given state, and the array newWorldState
\* makes for that column
arrayOfGiven(x) == <<"given", x>>
arrayOfMade(x) == <<"made", x>>

\* a copy that shares the arrays of the given state: newStacks = state.stacks
stacksShared(state) ==
  [x \in 1 .. Len(state.stacks) |-> arrayOfGiven(x)]

\* for (let stack of state.stacks) { newStack = []; ...push...;
\* newStacks.push(newStack) }: the arrays of newState.stacks are new ones
stacksCopied(state) ==
  [x \in 1 .. Len(state.stacks) |-> arrayOfMade(x)]

\* the content of an array after the call: the switch writes to the arrays
\* of newState.stacks only
arrayAfter(state, made, array) ==
  IF array \in Range(stacksCopied(state))
  THEN made.stacks[array[2]]
  ELSE state.stacks[array[2]]

\* the given state as it reads after the call
givenAfter(state, made) ==
  [state EXCEPT
     !.stacks = [x \in 1 .. Len(state.stacks) |->
                   arrayAfter(state, made, arrayOfGiven(x))]]

\* the moves newWorldState is written for: those of getPossibleMoves, and
\* d whenever an object is held
movesFor(state) ==
  Range(getPossibleMoves(state))
    \cup (IF state.holding # Null THEN {"d"} ELSE {})

InitTransition ==
  /\ pc = "transition"
  /\ start \in {StateNode("", w) : w \in Worlds(ObjectIds, SmallStacks)}
  /\ EvalIdle
  /\ BiIdle
  /\ WalkIdle
  /\ PlanIdle
  /\ openNodes = <<>>
  /\ removed = [kind |-> "none"]
  /\ closedNodes = {}
  /\ predecessors = <<>>
  /\ result = [path |-> <<>>, cost |-> 0]
  /\ now = 0
  /\ timeout = 0
  /\ graph = <<>>
  /\ goals = {}
  /\ hvals = <<>>
  /\ popped = 0

\* newWorldState(start.state, move)
Transition ==
  /\ pc = "transition"
  /\ returned.kind = "none"
  /\ \E move \in movesFor(start.state) :
       returned' = [kind |-> "newWorldState",
                    move |-> move,
                    made |-> newWorldState(start.state, move),
                    arrays |-> stacksCopied(start.state),
                    given |-> givenAfter(start.state,
                                         newWorldState(start.state, move))]
  /\ UNCHANGED <<openNodes, removed, pc, searchVars, planVars, walkVars,
                 cmd, biVars>>

NextTransition == Transition

SpecTransition == InitTransition /\ [][NextTransition]_vars

-----------------------------------------------------------------------------
(* Planner harness for formulas with a negated literal *)

\* {polarity: false, relation: ..., args: ...}
Negated(literal) == [literal EXCEPT !.polarity = FALSE]

\* Planner.plan with one candidate, a formula of one negated literal
InitPlanNegated ==
  /\ pc = "plan"
  /\ interpretations \in {<<<<<<Negated(l)>>>>>> : l \in Literals(ObjectIds)}
  /\ start \in {StateNode("", w) : w \in Worlds(ObjectIds, SmallStacks)}
  /\ cur = 0
  /\ plans = <<>>
  /\ errors = <<>>
  /\ timeout = PlannerTimeout
  /\ now = 0
  /\ result = [path |-> <<start>>, cost |-> 0]
  /\ closedNodes = {}
  /\ predecessors = (toString(start) :> start)
  /\ openNodes = HeapAdd(<<>>, CostNode(start, 0, 0))
  /\ popped = 0
  /\ removed = [kind |-> "none"]
  /\ graph = <<>>
  /\ goals = {}
  /\ hvals = <<>>
  /\ WalkIdle
  /\ EvalIdle
  /\ BiIdle

SpecPlanNegated == InitPlanNegated /\ [][NextPlan]_vars

-----------------------------------------------------------------------------
(* biDirectionalSearch on explicit finite graphs. The start side keeps its  *)
(* open queue, closed set and predecessors in openNodes, closedNodes and    *)
(* predecessors, as aStarSearch does.                                       *)

\* the edges leaving node n, in target order, for a cost table c on the
\* forward pairs; with both set, every edge also runs backwards
RECURSIVE biEdgesFrom(_, _, _, _)
biEdgesFrom(c, both, n, j) ==
  IF j > NumNodes THEN <<>>
  ELSE IF <<n, j>> \in EdgePairs /\ c[<<n, j>>] > 0
       THEN <<[to |-> j, cost |-> c[<<n, j>>]]>>
              \o biEdgesFrom(c, both, n, j + 1)
  ELSE IF both /\ <<j, n>> \in EdgePairs /\ c[<<j, n>>] > 0
       THEN <<[to |-> j, cost |-> c[<<j, n>>]]>>
              \o biEdgesFrom(c, both, n, j + 1)
  ELSE biEdgesFrom(c, both, n, j + 1)

\* getGoalNodes: used.add(edge.to); if (goal(edge.to)) goalNodes.add(edge.to)
visited(to, acc) ==
  [used  |-> acc.used \cup {to},
   found |-> IF goal(to) THEN Append(acc.found, to) ELSE acc.found]

\* getGoalNodes: the loop over graph.outgoingEdges(actual), from edge i on;
\* acc = [used, found], found in the order of goalNodes.add; the recursive
\* call on edge.to has returned (below) before the loop goes on
RECURSIVE getGoalNodesFrom(_, _, _)
getGoalNodesFrom(actual, i, acc) ==
  IF i > Len(edgesOf(actual)) THEN acc
  ELSE IF edgesOf(actual)[i].to \in acc.used
       THEN getGoalNodesFrom(actual, i + 1, acc)
  ELSE CHOOSE after \in
         {getGoalNodesFrom(actual, i + 1, below) :
            below \in {getGoalNodesFrom(edgesOf(actual)[i].to, 1,
                                        visited(edgesOf(actual)[i].to, acc))}} :
         TRUE

\* getGoalNodes(new Set(), start, new Set())
getGoalNodes ==
  getGoalNodesFrom(start, 1, [used |-> {}, found |-> <<>>]).found

\* goalNodes.forEach: openNodesGoal.add(new CostNode(goal, 0, 0))
RECURSIVE goalQueueFrom(_, _, _)
goalQueueFrom(found, i, open) ==
  IF i > Len(found) THEN open
  ELSE goalQueueFrom(found, i + 1, HeapAdd(open, CostNode(found[i], 0, 0)))

\* biDirectionalSearch up to its loop (Graph.ts:56-124)
InitBiSearch ==
  /\ pc = "bisearch"
  /\ \E c \in [EdgePairs -> 0 .. MaxCost], both \in BOOLEAN :
       graph = [n \in Nodes |-> biEdgesFrom(c, both, n, 1)]
  /\ goals \in {{NumNodes}, {1, NumNodes}}
  /\ hvals \in {h \in [Nodes -> 0 .. MaxH] : h[1] = 0 /\ h[NumNodes] = 0}
  /\ timeout = 1
  /\ start = 1
  /\ now = 0
  /\ result = [path |-> <<1>>, cost |-> 0]
  /\ closedNodes = {}
  /\ predecessors = (1 :> 1)
  /\ openNodes = HeapAdd(<<>>, CostNode(1, 0, 0))
  /\ closedGoalNodes = {}
  /\ \E goalNodes \in {getGoalNodes} :
       /\ openNodesGoal = goalQueueFrom(goalNodes, 1, <<>>)
       /\ goalSuccessors = [n \in Range(goalNodes) |-> n]
  /\ popped = 0
  /\ removed = [kind |-> "none"]
  /\ PlanIdle
  /\ WalkIdle
  /\ EvalIdle

\* do { path2.add(currentGoalNode.node);
\*      currentGoalNode = successors.getValue(currentGoalNode);
\*      result.cost++; } while (!goal(currentGoalNode.node));
\* path2.add(currentGoalNode.node); result.cost++
RECURSIVE goalPath(_, _)
goalPath(node, path2) ==
  IF goal(goalSuccessors[keyOf(node)])
  THEN Append(Append(path2, node), goalSuccessors[keyOf(node)])
  ELSE goalPath(goalSuccessors[keyOf(node)], Append(path2, node))

\* predecessors.getValue(currentStartNode): the CostNode that was being
\* expanded when the entry got its g-cost, which is that g-cost less the
\* cost of the edge between the two; the start node is its own predecessor
predecessorOf(currentStartNode) ==
  IF currentStartNode.node = start THEN CostNode(start, 0, 0)
  ELSE CostNode(predecessors[keyOf(currentStartNode.node)],
                currentStartNode.gCost
                  - edgeCost(predecessors[keyOf(currentStartNode.node)],
                             currentStartNode.node),
                0)

\* the node the path is collected from: the predecessor when the successor
\* and the predecessor of the popped node are both closed on the start side
meetingNode(currentStartNode, closedStart) ==
  IF /\ keyOf(goalSuccessors[keyOf(currentStartNode.node)]) \in closedStart
     /\ keyOf(predecessors[keyOf(currentStartNode.node)]) \in closedStart
  THEN predecessorOf(currentStartNode)
  ELSE currentStartNode

biOutcome(kind, open, closed, preds, openGoal, closedGoal, succ, res) ==
  [kind |-> kind, open |-> open, closed |-> closed, preds |-> preds,
   openGoal |-> openGoal, closedGoal |-> closedGoal, succ |-> succ,
   result |-> res]

\* the result collected from the node met
collected(met) ==
  [path |-> Reverse(collectPath(predecessors, met.node, <<>>))
              \o goalPath(goalSuccessors[keyOf(met.node)], <<>>),
   cost |-> met.gCost
              + Len(goalPath(goalSuccessors[keyOf(met.node)], <<>>))]

\* the branch "Optimal path found" (Graph.ts:141-170); reading .node of a
\* successor that is not in the dictionary is a TypeError
biFound(currentStartNode, open1, closedStart, openGoal1, closedGoal) ==
  IF keyOf(currentStartNode.node) \notin DOMAIN goalSuccessors
  THEN biOutcome("typeerror", open1, closedStart, predecessors, openGoal1,
                 closedGoal, goalSuccessors, result)
  ELSE IF keyOf(meetingNode(currentStartNode, closedStart).node)
            \notin DOMAIN goalSuccessors
  THEN biOutcome("typeerror", open1, closedStart, predecessors, openGoal1,
                 closedGoal, goalSuccessors, result)
  ELSE biOutcome("found", open1, closedStart, predecessors, openGoal1,
                 closedGoal, goalSuccessors,
                 collected(meetingNode(currentStartNode, closedStart)))

\* the two edge loops (Graph.ts:173-187 and 213-227), given what they leave
biExpanded(accStart, closedStart, accGoal, closedGoal) ==
  biOutcome("continue", accStart.open, closedStart, accStart.preds,
            accGoal.open, closedGoal, accGoal.preds, result)

\* the loop body after the two removeRoot and the two closed sets' add
biAfterPop(startNode, open1, closedStart, goalNode, openGoal1, closedGoal) ==
  IF \/ goal(startNode.node)
     \/ keyOf(startNode.node) \in closedGoal
  THEN biFound(startNode, open1, closedStart, openGoal1, closedGoal)
  ELSE biExpanded(
         expandEdges(edgesOf(startNode.node), 1, startNode,
                     closedStart,
                     [open |-> open1, preds |-> predecessors,
                      threw |-> FALSE, error |-> ""]),
         closedStart,
         expandEdges(edgesOf(goalNode.node), 1, goalNode,
                     closedGoal,
                     [open |-> openGoal1, preds |-> goalSuccessors,
                      threw |-> FALSE, error |-> ""]),
         closedGoal)

\* One pass of the while loop once the timeout check has passed
biLoopBody ==
  biAfterPop(At(openNodes, 0), HeapAfterRemoveRoot(openNodes),
             closedNodes \cup {keyOf(At(openNodes, 0).node)},
             At(openNodesGoal, 0), HeapAfterRemoveRoot(openNodesGoal),
             closedGoalNodes \cup {keyOf(At(openNodesGoal, 0).node)})

applyBiOutcome(out) ==
  /\ openNodes' = out.open
  /\ closedNodes' = out.closed
  /\ predecessors' = out.preds
  /\ openNodesGoal' = out.openGoal
  /\ closedGoalNodes' = out.closedGoal
  /\ goalSuccessors' = out.succ
  /\ result' = out.result
  /\ popped' = popped + 1
  /\ pc' = CASE out.kind = "continue" -> "bisearch"
             [] out.kind = "found" -> "returned"
             [] out.kind = "typeerror" -> "typeerror"

BiStep ==
  /\ pc = "bisearch"
  /\ ~isEmpty(openNodes)
  /\ ~isEmpty(openNodesGoal)
  /\ ~TimedOut
  /\ applyBiOutcome(biLoopBody)
  /\ UNCHANGED <<removed, now, timeout, start, graph, goals, hvals, planVars,
                 walkVars, evalVars>>

\* while (!openNodesStart.isEmpty() && !openNodesGoal.isEmpty()) fails:
\* return result as initialised
BiEmpty ==
  /\ pc = "bisearch"
  /\ isEmpty(openNodes) \/ isEmpty(openNodesGoal)
  /\ pc' = "returned"
  /\ UNCHANGED <<openNodes, removed, closedNodes, predecessors, result, now,
                 timeout, start, graph, goals, hvals, popped, planVars,
                 walkVars, evalVars, biVars>>

\* throw Error("Search Timed Out")
BiTimeout ==
  /\ pc = "bisearch"
  /\ ~isEmpty(openNodes)
  /\ ~isEmpty(openNodesGoal)
  /\ TimedOut
  /\ pc' = "timeout"
  /\ UNCHANGED <<openNodes, removed, closedNodes, predecessors, result, now,
                 timeout, start, graph, goals, hvals, popped, planVars,
                 walkVars, evalVars, biVars>>

NextBiSearch == Tick \/ BiEmpty \/ BiTimeout \/ BiStep

SpecBiSearch == InitBiSearch /\ [][NextBiSearch]_vars

-----------------------------------------------------------------------------
(* Reference notions the properties are stated with *)

\* larger than the cost of any path of an explicit graph
Infinity == (NumNodes * MaxCost) + 1

\* the true cost of a cheapest path from n to a goal node of the explicit
\* graph (edges lead to larger nodes only), Infinity when there is none
RECURSIVE shortest(_)
shortest(n) ==
  IF n \in goals THEN 0
  ELSE SetMin({Infinity}
                \cup {graph[n][i].cost + shortest(graph[n][i].to) :
                        i \in 1 .. Len(graph[n])})

\* the heuristic table never overestimates the true remaining cost
Admissible ==
  \A n \in Nodes : shortest(n) < Infinity => hvals[n] <= shortest(n)

\* the heuristic table is 0 on goals and obeys the triangle inequality
Consistent ==
  /\ \A n \in goals : hvals[n] = 0
  /\ \A n \in Nodes :
       \A i \in 1 .. Len(graph[n]) :
         hvals[n] <= graph[n][i].cost + hvals[graph[n][i].to]

\* the world states one edge of the StateGraph away
successors(state) ==
  {outgoingEdges(StateNode("", state))[i].to.state :
     i \in 1 .. Len(outgoingEdges(StateNode("", state)))}

Unreachable == 0 - 1

\* breadth-first: the least number of edges from a state of the frontier to
\* a state that satisfies the formula, Unreachable when there is none
RECURSIVE stepsToGoal(_, _, _, _)
stepsToGoal(frontier, seen, depth, interpretation) ==
  IF \E st \in frontier : isGoal(StateNode("", st), interpretation)
  THEN depth
  ELSE LET next == (UNION {successors(st) : st \in frontier}) \ seen
       IN  IF next = {} THEN Unreachable
           ELSE stepsToGoal(next, seen \cup next, depth + 1, interpretation)

\* the least number of actions from the initial world to the formula
cheapest(interpretation) ==
  stepsToGoal({start.state}, {start.state}, 0, interpretation)

\* the actions of a returned plan
actionsOf(plan) == IF plan = <<AlreadyTrue>> THEN <<>> ELSE plan

\* the world after the actions of a plan, from action i on
RECURSIVE applyMoves(_, _, _)
applyMoves(state, actions, i) ==
  IF i > Len(actions) THEN state
  ELSE applyMoves(newWorldState(state, actions[i]), actions, i + 1)

initialResult == [path |-> <<start>>, cost |-> 0]

-----------------------------------------------------------------------------
(* Properties of the search engine, under SpecSearch *)

\* C2: aStarSearch returns a SearchResult only after it has popped a node
\* that satisfies the goal predicate; an open queue that runs empty without
\* one ends in the NoPlanFound error, not in a return.
ReturnsOnlyAfterGoal ==
  pc = "returned" => \E n \in closedNodes : goal(n)

TimeoutZeroNeverLoops ==
  timeout = 0 =>
    /\ popped = 0
    /\ pc \in {"search", "timeout"}
    /\ pc = "search" => (~isEmpty(openNodes) /\ ~(now < 0))
    /\ result = initialResult

\* a search with timeout 0 whose start node is a goal has failed with the
\* timeout error
TimeoutZeroWitness ==
  /\ timeout = 0
  /\ pc = "timeout"
  /\ start \in goals
  /\ popped = 0

\* C10: a node is popped only in a pass of the loop that has just seen the
\* elapsed time below the budget; a pass that sees elapsed >= budget ends the
\* call with the timeout error, with no node popped and the result left as
\* initialised; after the timeout error nothing is popped or returned.
TimeoutBeforeEachPop ==
  [][/\ popped' # popped => now < timeout * 1000
     /\ (/\ pc = "search" /\ ~isEmpty(openNodes) /\ pc' # pc
         /\ ~(now < timeout * 1000))
          => (pc' = "timeout" /\ popped' = popped /\ result' = result
                /\ openNodes' = openNodes)
     /\ pc = "timeout"
          => (pc' = "timeout" /\ popped' = popped /\ result' = result)]_vars

\* a search has failed with the timeout error after at least one pass of
\* its loop, with nodes still in the open queue
TimeoutBeforeEachPopWitness ==
  /\ pc = "timeout"
  /\ popped >= 1
  /\ Len(openNodes) >= 1
  /\ result = initialResult

-----------------------------------------------------------------------------
(* Properties of the planner, under SpecPlan *)

\* C1: applying the actions of every returned plan, in order, to the initial
\* world with newWorldState yields a world that satisfies the formula the
\* plan was made for.
PlanIsSound ==
  \A i \in 1 .. Len(plans) :
    isGoal(StateNode("", applyMoves(start.state, actionsOf(plans[i].plan), 1)),
           plans[i].interpretation)

\* C4: every returned plan has the least number of actions among the action
\* sequences of the state model that reach a world satisfying its formula.
PlanIsCheapest ==
  \A i \in 1 .. Len(plans) :
    cheapest(plans[i].interpretation) # Unreachable
      => Len(actionsOf(plans[i].plan)) = cheapest(plans[i].interpretation)

\* C5: when a world satisfying the formula can be reached from the initial
\* world, the planner, unless it runs out of time, returns a plan and does
\* not fail; for stacks [[a],[b]], arm 0, nothing held and ontop(a,b) that
\* plan is p, r, d.
PlanIsComplete ==
  /\ (/\ pc \in {"done", "thrown"}
      /\ Len(interpretations) = 1
      /\ cheapest(interpretations[1]) # Unreachable)
       => (Len(plans) = 1 \/ errors = <<"Search Timed Out">>)
  /\ (/\ pc = "done"
      /\ start.state = WorldState(<<<<"a">>, <<"b">>>>, Null, 0)
      /\ interpretations = <<<<<<Literal("ontop", <<"a", "b">>)>>>>>>)
       => plans[1].plan = <<"p", "r", "d">>

\* C6: when the initial world satisfies the formula of a candidate, its
\* search ends at the first pop with the path of the start node alone and
\* cost 0, nothing but the timeout can fail it, and its plan is the single
\* entry "That is already true!".
AlreadyTrueIsRendered ==
  /\ \A i \in 1 .. Len(plans) :
       isGoal(start, plans[i].interpretation)
         => plans[i].plan = <<AlreadyTrue>>
  /\ (pc \in {"done", "thrown"} /\ isGoal(start, At(interpretations, cur)))
       => (result = initialResult /\ popped <= 1)
  /\ (\A i \in 1 .. Len(interpretations) :
        isGoal(start, interpretations[i]))
       => \A j \in 1 .. Len(errors) : errors[j] = "Search Timed Out"

\* the arm holds a, the formula is holding(a): one pop, and the plan is the
\* already-true message
AlreadyTrueWitness ==
  /\ pc = "done"
  /\ start.state.holding = "a"
  /\ interpretations = <<<<<<Literal("holding", <<"a">>)>>>>>>
  /\ popped = 1
  /\ result = initialResult
  /\ plans = <<PlannerResult(interpretations[1], <<AlreadyTrue>>)>>

-----------------------------------------------------------------------------
(* Properties of the heuristic, under SpecMoves *)

\* C7: where estimatedCostLiteral is defined on a world, its value is at
\* most the number of edges of any walk from that world to a world in which
\* the literal holds.
EstimateIsAdmissible ==
  (/\ ~estimatedCostLiteralThrows(walkLiteral, start.state)
   /\ literalHolds(walkLiteral, walk.state))
    => estimatedCostLiteral(walkLiteral, start.state) <= steps

-----------------------------------------------------------------------------
(* Properties of the planner's error handling, under SpecPlan *)

\* the object identifiers a formula names
namesOf(interpretation) ==
  (UNION {Range(literalAt(interpretation, p).args) :
            p \in literalIndices(interpretation)})
    \cap ObjectIds

\* the object is in a stack of the world or held by its arm
present(objectId, state) ==
  \/ state.holding = objectId
  \/ \E x \in 1 .. Len(state.stacks) : objectId \in Range(state.stacks[x])

\* C11: a candidate whose formula names an object identifier that is in no
\* stack of the initial world and not held never yields a plan, be it a
\* sequence of actions or the already-true message.
InvalidReferenceFails ==
  \A i \in 1 .. Len(plans) :
    \A objectId \in namesOf(plans[i].interpretation) :
      present(objectId, start.state)

\* the interpretations of the plans are those of the candidates at strictly
\* increasing positions, from position from on
RECURSIVE inInputOrder(_, _, _)
inInputOrder(done, i, from) ==
  \/ i > Len(done)
  \/ \E j \in from .. Len(interpretations) :
       /\ interpretations[j] = done[i].interpretation
       /\ inInputOrder(done, i + 1, j + 1)

\* C12: plan tries every candidate: each one ends in exactly one plan
\* record or one recorded error, and a failure does not end the call while
\* candidates remain; plan returns the records of the candidates that did not
\* fail, in input order, and throws only when there is none, and then the
\* error first recorded.
EveryCandidateIsTried ==
  /\ [](/\ Len(plans) + Len(errors)
             = IF pc = "plan" THEN cur ELSE Len(interpretations)
        /\ inInputOrder(plans, 1, 1)
        /\ pc = "thrown" => (plans = <<>> /\ thrownError = errors[1])
        /\ pc = "done" => plans # <<>>)
  /\ [][(plans' # plans \/ errors' # errors) =>
          \/ /\ errors' = errors
             /\ Len(plans') = Len(plans) + 1
             /\ plans' = Append(plans, plans'[Len(plans')])
             /\ plans'[Len(plans')].interpretation = At(interpretations, cur)
          \/ /\ plans' = plans
             /\ Len(errors') = Len(errors) + 1
             /\ errors' = Append(errors, errors'[Len(errors')])]_vars

\* of two candidates the first has failed and the second has a plan of
\* actions, which is returned alone
EveryCandidateIsTriedWitness ==
  /\ pc = "done"
  /\ Len(interpretations) = 2
  /\ Len(errors) = 1
  /\ Len(plans) = 1
  /\ plans[1].interpretation = interpretations[2]
  /\ plans[1].interpretation # interpretations[1]
  /\ plans[1].plan # <<AlreadyTrue>>

\* both of two candidates have failed, with different errors, and plan has
\* thrown
AllCandidatesFailed ==
  /\ pc = "thrown"
  /\ Len(errors) = 2
  /\ errors[1] # errors[2]

\* the action vocabulary of a plan
Actions == {"p", "d", "l", "r"}

-----------------------------------------------------------------------------
(* Properties of the state model, under SpecMoves *)

\* C14: the node a walk has reached and the start node compare equal
\* (compareNodes returns 0, and they have the same key in the closed set and
\* in the dictionary of predecessors) if and only if their worlds have the
\* same stacks, arm position and held object, whatever the action labels.
NodesEqualIffSameState ==
  /\ (compareNodes(walk, start) = 0) <=> (walk.state = start.state)
  /\ (toString(walk) = toString(start)) <=> (walk.state = start.state)

\* the stack under the arm of a world
underArm(state) == At(state.stacks, state.arm)

\* C15: a walk follows a pick edge only from a world whose arm holds nothing
\* over a non-empty stack; the target holds the former top object of that
\* stack, the stack is one object shorter, and the target differs from the
\* source.
PickIsValid ==
  [][walk'.move = "p" =>
       /\ walk.state.holding = Null
       /\ Len(underArm(walk.state)) > 0
       /\ walk'.state.holding
            = underArm(walk.state)[Len(underArm(walk.state))]
       /\ underArm(walk'.state)
            = SubSeq(underArm(walk.state), 1, Len(underArm(walk.state)) - 1)
       /\ walk'.state # walk.state]_vars

\* the arm of the world holds an object that the stacking rules allow on
\* the object on top of the stack under the arm, or the stack is empty
dropAllowed(state) ==
  /\ state.holding # Null
  /\ \/ Len(underArm(state)) = 0
     \/ stackingRules(objects[state.holding],
                      objects[topOf(underArm(state))])

\* the targets of the edges of a node that carry the move
targetsBy(node, move) ==
  {outgoingEdges(node)[i].to.state :
     i \in {j \in 1 .. Len(outgoingEdges(node)) :
              outgoingEdges(node)[j].to.move = move}}

\* C16: the node a walk has reached has a drop edge if and only if its arm
\* holds an object and the stacking rules allow that object on the top of the
\* stack under the arm, or that stack is empty; the target of the edge has
\* the held object pushed on that stack and holds nothing.
DropIsValid ==
  /\ (targetsBy(walk, "d") # {}) <=> dropAllowed(walk.state)
  /\ \A target \in targetsBy(walk, "d") :
       /\ underArm(target) = Append(underArm(walk.state), walk.state.holding)
       /\ target.holding = Null

\* C17: a walk follows a left edge only from a world with arm > 0 and a
\* right edge only from one with arm < stackCount - 1; the target has the arm
\* one column to the left, respectively to the right, and is not the world
\* the edge starts from.
LeftRightIsValid ==
  [][/\ walk'.move = "l" =>
          /\ walk.state.arm > 0
          /\ walk'.state.arm = walk.state.arm - 1
          /\ walk'.state # walk.state
     /\ walk'.move = "r" =>
          /\ walk.state.arm < Len(walk.state.stacks) - 1
          /\ walk'.state.arm = walk.state.arm + 1
          /\ walk'.state # walk.state]_vars

\* the number of places of a world an object identifier is in: the hand and
\* the positions of the stacks
occurrences(objectId, state) ==
  (IF state.holding = objectId THEN 1 ELSE 0)
    + Cardinality(UNION {{<<x, y>> :
                            y \in {z \in 1 .. Len(state.stacks[x]) :
                                     state.stacks[x][z] = objectId}} :
                           x \in 1 .. Len(state.stacks)})

\* all that is in a stack or in the hand of a world
contents(state) ==
  (UNION {Range(state.stacks[x]) : x \in 1 .. Len(state.stacks)})
    \cup ({state.holding} \ {Null})

\* every object identifier is in exactly one place of the world
eachOnce(state) ==
  /\ \A objectId \in ObjectIds : occurrences(objectId, state) = 1
  /\ contents(state) = ObjectIds

\* C18: when every object identifier is in exactly one place of the world a
\* walk starts from (one position of one stack, or the hand), the same holds
\* in every world the walk reaches along the edges of the state model:
\* nothing is in a stack and held, twice in the stacks, or lost.
ObjectsAreConserved ==
  eachOnce(start.state) => eachOnce(walk.state)

\* a walk of three edges from a world with every object in a stack has
\* reached a world whose arm holds an object, in another column
ObjectsAreConservedWitness ==
  /\ eachOnce(start.state)
  /\ start.state.holding = Null
  /\ steps = MaxSteps
  /\ walk.state.holding # Null
  /\ walk.state.arm # start.state.arm
  /\ eachOnce(walk.state)

-----------------------------------------------------------------------------
(* Properties of the heap at its edges, under SpecHeap *)

\* C19: a call of removeRoot on a heap that holds no element signals an
\* error; it does not return without effect.
RemoveRootOnEmptyFails ==
  [][(isEmpty(openNodes) /\ removed' # [kind |-> "none"])
       => removed'.kind = "error"]_vars

\* no stored element has a smaller rank than its parent
heapOrdered(data) ==
  \A i \in 1 .. Len(data) - 1 :
    At(data, parentIndex(i)).fCost <= At(data, i).fCost

\* C20: update finds the stored element that equals its argument under the
\* heap's equals, be the argument the stored object or another one, and
\* sifts it up: after the rank of a stored element was decreased and update
\* was called, the heap is in heap order again.
UpdateLocatesByEquality ==
  heapOrdered(openNodes)

\* the same for the stored object itself: under SpecHeap, where update is
\* always handed the object that is stored, the heap is in heap order after
\* every operation
UpdateLocatesByIdentity ==
  pc = "heap" => heapOrdered(openNodes)

-----------------------------------------------------------------------------
(* Properties of the heuristic and of the goal test, under SpecEval *)

\* at least one clause and no empty clause
hasLiterals(interpretation) ==
  /\ Len(interpretation) >= 1
  /\ \A i \in 1 .. Len(interpretation) : Len(interpretation[i]) >= 1

\* h is the least, over the clauses, of the largest estimate of a clause's
\* literals: no clause has all its estimates below h, and one has none
\* above
minOfMax(h, interpretation, state) ==
  /\ \A i \in 1 .. Len(interpretation) :
       \E j \in 1 .. Len(interpretation[i]) :
         estimatedCostLiteral(interpretation[i][j], state) >= h
  /\ \E i \in 1 .. Len(interpretation) :
       \A j \in 1 .. Len(interpretation[i]) :
         estimatedCostLiteral(interpretation[i][j], state) <= h

\* C21: for a formula with at least one clause and no empty clause, the
\* number StateNode.heuristics returns is the minimum over the clauses of the
\* maximum over the clause's literals of estimatedCostLiteral, not a sum of
\* estimates.
HeuristicIsMinOfMax ==
  (returned.kind = "heuristics" /\ hasLiterals(evalFormula))
    => minOfMax(returned.value, evalFormula, start.state)

\* heuristics has returned for a clause of two literals with different
\* estimates above 0: their maximum, which is below their sum
HeuristicIsMinOfMaxWitness ==
  /\ returned.kind = "heuristics"
  /\ Len(evalFormula) = 1
  /\ Len(evalFormula[1]) = 2
  /\ estimatedCostLiteral(evalFormula[1][1], start.state) > 0
  /\ estimatedCostLiteral(evalFormula[1][2], start.state)
       > estimatedCostLiteral(evalFormula[1][1], start.state)
  /\ returned.value = estimatedCostLiteral(evalFormula[1][2], start.state)

\* heuristics has returned for two clauses with different estimates above
\* 0: the smaller one
HeuristicIsMinimumOfClauses ==
  /\ returned.kind = "heuristics"
  /\ Len(evalFormula) = 2
  /\ clauseCost(evalFormula[1], start.state) > 0
  /\ clauseCost(evalFormula[2], start.state)
       > clauseCost(evalFormula[1], start.state)
  /\ returned.value = clauseCost(evalFormula[1], start.state)

\* the clauses of a formula all of whose literals hold in a world
clausesHolding(interpretation, state) ==
  {i \in 1 .. Len(interpretation) :
     {j \in 1 .. Len(interpretation[i]) :
        ~literalHolds(interpretation[i][j], state)} = {}}

\* C22: StateNode.isGoal returns true if and only if at least one clause of
\* the formula has all of its literals hold in the state; for a formula with
\* no clause it returns false.
GoalIffSomeClauseHolds ==
  returned.kind = "isGoal" =>
    /\ returned.value = (clausesHolding(evalFormula, start.state) # {})
    /\ Len(evalFormula) = 0 => returned.value = FALSE

\* isGoal has returned true for a formula whose first clause does not hold
\* and whose second clause holds
GoalIffSomeClauseHoldsWitness ==
  /\ returned = [kind |-> "isGoal", value |-> TRUE]
  /\ Len(evalFormula) = 2
  /\ clausesHolding(evalFormula, start.state) = {2}

\* isGoal has returned false for the formula with no clause
NoClauseIsNoGoal ==
  /\ returned = [kind |-> "isGoal", value |-> FALSE]
  /\ Len(evalFormula) = 0

-----------------------------------------------------------------------------
(* Properties of the interpreter, under SpecInterpret *)

\* no object matches the command, or the command has a location and no
\* pair of an object and a target passes physicalLaws
noneValid(command, state) ==
  \/ Len(objectsOf(command, state)) = 0
  \/ /\ hasLocation(command)
     /\ \A i \in 1 .. Len(objectsOf(command, state)) :
          \A j \in 1 .. Len(targetsOf(command, state)) :
            ~physicalLaws(command, objectsOf(command, state)[i],
                          targetsOf(command, state)[j])

\* C23: interpretCommand throws when no object matches the command or no
\* pair of an object and a target passes physicalLaws, whatever the
\* quantifiers; a formula it returns has at least one clause and no empty
\* clause.
ThrowsWhenNoneValid ==
  returned.kind # "none" =>
    /\ noneValid(cmd, start.state) => returned.kind = "error"
    /\ returned.kind = "formula" => hasLiterals(returned.value)

\* C24: every clause PutAllToAnyStrategy returns has exactly one literal for
\* each object of the objects list, with a target whose pair passes
\* physicalLaws; no clause leaves an object out.
AllToAnyCoversEveryObject ==
  (/\ returned.kind = "formula"
   /\ getInterpretationStrategy(cmd) = "PutAllToAny")
    => \A c \in 1 .. Len(returned.value) :
         \A i \in 1 .. Len(objectsOf(cmd, start.state)) :
           /\ Cardinality({j \in 1 .. Len(returned.value[c]) :
                             returned.value[c][j].args[1]
                               = objectsOf(cmd, start.state)[i]}) = 1
           /\ \A j \in 1 .. Len(returned.value[c]) :
                physicalLaws(cmd, returned.value[c][j].args[1],
                             returned.value[c][j].args[2])

\* C25: no literal of a formula interpretCommand returns for a command with
\* a location relates an object to itself, whatever the strategy, the
\* objects and the targets.
NoLiteralOnItself ==
  (returned.kind = "formula" /\ hasLocation(cmd))
    => \A p \in literalIndices(returned.value) :
         literalAt(returned.value, p).args[1]
           # literalAt(returned.value, p).args[2]

\* the same objects match both descriptions of a command for one object and
\* one target: the formula relates each of two objects to the other and
\* none to itself
NoLiteralOnItselfWitness ==
  /\ returned.kind = "formula"
  /\ hasLocation(cmd)
  /\ getInterpretationStrategy(cmd) = "PutOneToOne"
  /\ objectsOf(cmd, start.state) = targetsOf(cmd, start.state)
  /\ Len(objectsOf(cmd, start.state)) >= 2
  /\ \E p, q \in literalIndices(returned.value) :
       /\ literalAt(returned.value, p).args[1]
            = literalAt(returned.value, q).args[2]
       /\ literalAt(returned.value, p).args[2]
            = literalAt(returned.value, q).args[1]

-----------------------------------------------------------------------------
(* Properties of the arm and of the transition function, under SpecMoves *)

\* the arm of the world is over one of its columns
armInBounds(state) ==
  state.arm >= 0 /\ state.arm <= Len(state.stacks) - 1

\* C26: when the arm of the world a walk starts from is over one of the
\* columns, so is the arm of every world the walk reaches along the edges of
\* the state model.
ArmStaysInBounds ==
  armInBounds(start.state) => armInBounds(walk.state)

\* a walk from a world with the arm over the last column has followed the
\* right edge offered there
ArmStaysInBoundsWitness ==
  /\ start.state.arm = Len(start.state.stacks) - 1
  /\ steps = 1
  /\ walk.move = "r"
  /\ armInBounds(walk.state)

-----------------------------------------------------------------------------
(* Properties of the transition function, under SpecTransition *)

\* C27: a call of newWorldState leaves the stacks, the arm and the held
\* object of the state it is given as they were, and the stacks of the state
\* it makes are new arrays; after l and r the new state has the stacks and
\* the held object of the given one, and after p and d it has its arm and
\* its stacks but for the one under the arm.
GivenStateIsUnchanged ==
  returned.kind = "newWorldState" =>
    /\ returned.given = start.state
    /\ Range(returned.arrays) \cap Range(stacksShared(start.state)) = {}
    /\ returned.move \in {"l", "r"} =>
         /\ returned.made.stacks = start.state.stacks
         /\ returned.made.holding = start.state.holding
    /\ returned.move \in {"p", "d"} =>
         /\ returned.made.arm = start.state.arm
         /\ \A x \in 1 .. Len(start.state.stacks) :
              x # start.state.arm + 1
                => returned.made.stacks[x] = start.state.stacks[x]

\* a call has picked the upper of two objects of the stack under the arm:
\* the state it has made has that stack one shorter, the given state has it
\* as before
GivenStateIsUnchangedWitness ==
  /\ returned.kind = "newWorldState"
  /\ returned.move = "p"
  /\ Len(underArm(start.state)) = 2
  /\ Len(underArm(returned.made)) = 1
  /\ returned.made.holding = underArm(start.state)[2]
  /\ returned.given = start.state

\* a call has dropped the held object on a stack
DropLeavesOtherStacks ==
  /\ returned.kind = "newWorldState"
  /\ returned.move = "d"
  /\ Len(underArm(returned.made)) = Len(underArm(start.state)) + 1

NoDropAfterDrop ==
  (returned.kind = "newWorldState" /\ returned.move = "d") =>
    "d" \notin Range(getPossibleMoves(returned.made))

\* a drop has put the held object on top of the stack under the arm
NoDropAfterDropWitness ==
  /\ returned.kind = "newWorldState"
  /\ returned.move = "d"
  /\ topOf(underArm(returned.made)) = start.state.holding

-----------------------------------------------------------------------------
(* Properties of literalHolds, under SpecEval *)

\* the places (column, height), both from 1, where a stack holds the object
placesOf(objectId, state) ==
  UNION {{<<x, y>> : y \in {z \in 1 .. Len(state.stacks[x]) :
                              state.stacks[x][z] = objectId}} :
           x \in 1 .. Len(state.stacks)}

\* x and y are in one stack, x by the given number of places higher
higherBy(x, y, state, by) ==
  \E p \in placesOf(x, state) : \E q \in placesOf(y, state) :
    p[1] = q[1] /\ p[2] = q[2] + by

\* x and y are in one stack, x higher
higher(x, y, state) ==
  \E p \in placesOf(x, state) : \E q \in placesOf(y, state) :
    p[1] = q[1] /\ p[2] > q[2]

\* C29: literalHolds of ontop(x,y) and of inside(x,y) is true exactly when x
\* and y are in one stack and x lies immediately on y; literalHolds of
\* ontop(x,floor) is true exactly when x is the bottom object of a stack.
OnTopIffImmediatelyAbove ==
  (returned.kind = "literalHolds"
     /\ returned.literal.relation \in {"ontop", "inside"}) =>
    returned.value =
      (IF returned.literal.args[2] = "floor"
       THEN \E p \in placesOf(returned.literal.args[1], start.state) :
              p[2] = 1
       ELSE higherBy(returned.literal.args[1], returned.literal.args[2],
                     start.state, 1))

\* literalHolds of ontop(x,floor) is true exactly when x is the bottom
\* object of a stack
OnFloorIffBottom ==
  (returned.kind = "literalHolds"
     /\ returned.literal.relation = "ontop"
     /\ returned.literal.args[2] = "floor") =>
    returned.value =
      (\E p \in placesOf(returned.literal.args[1], start.state) : p[2] = 1)

\* C30: literalHolds of above(x,y) for two objects is true only when x and y
\* are in one stack and x is higher, and literalHolds of under(x,y) only
\* when they are in one stack and x is lower.
AboveUnderShareAStack ==
  (returned.kind = "literalHolds"
     /\ returned.literal.relation \in {"above", "under"}
     /\ returned.literal.args[2] \in ObjectIds
     /\ returned.value) =>
    IF returned.literal.relation = "above"
    THEN higher(returned.literal.args[1], returned.literal.args[2],
                start.state)
    ELSE higher(returned.literal.args[2], returned.literal.args[1],
                start.state)

\* when both objects are in one stack, literalHolds of above(x,y) and of
\* under(x,y) compares their heights
AboveUnderInOneStack ==
  (returned.kind = "literalHolds"
     /\ returned.literal.relation \in {"above", "under"}
     /\ returned.literal.args[2] \in ObjectIds
     /\ \E p \in placesOf(returned.literal.args[1], start.state) :
          \E q \in placesOf(returned.literal.args[2], start.state) :
            p[1] = q[1]) =>
    returned.value =
      (IF returned.literal.relation = "above"
       THEN higher(returned.literal.args[1], returned.literal.args[2],
                   start.state)
       ELSE higher(returned.literal.args[2], returned.literal.args[1],
                   start.state))

-----------------------------------------------------------------------------
(* Properties of the heuristic on the states a search reaches, under       *)
(* SpecPlan                                                                *)

\* the errors getPosition can throw
positionErrors == {doesNotExist(objectId) : objectId \in ObjectIds}

\* C31: when every object a candidate formula names is in a stack of the
\* initial world or held by its arm, no search ends in the error of
\* getPosition: the heuristic returns a number on every state reached.
HeuristicIsTotal ==
  (\A i \in 1 .. Len(interpretations) :
     \A objectId \in namesOf(interpretations[i]) :
       present(objectId, start.state))
    => \A k \in 1 .. Len(errors) : errors[k] \notin positionErrors

-----------------------------------------------------------------------------
(* Properties of the open queue and the closed set, under SpecSearch *)

\* C32: no node of the open queue is in the closed set; a pass of the loop
\* pops a node that was not closed before and adds it, and nothing else, to
\* the closed set, which never loses a node.
ClosedStayClosed ==
  /\ [](\A i \in 1 .. Len(openNodes) :
          keyOf(openNodes[i].node) \notin closedNodes)
  /\ [][/\ popped' # popped =>
             /\ keyOf(At(openNodes, 0).node) \notin closedNodes
             /\ closedNodes' =
                  closedNodes \cup {keyOf(At(openNodes, 0).node)}
        /\ popped' = popped => closedNodes' = closedNodes]_vars

\* nodes 2 and 3 were both opened from the start node, 3 with the smaller
\* f-cost, so that 3 was closed first; 2 has been expanded since and its
\* edge to 3 has not put 3 back in the open queue
ClosedStayClosedWitness ==
  /\ {2, 3} \subseteq closedNodes
  /\ start \notin goals
  /\ edgeCost(1, 2) > 0
  /\ edgeCost(1, 3) > 0
  /\ edgeCost(2, 3) > 0
  /\ edgeCost(1, 3) + hvals[3] < edgeCost(1, 2) + hvals[2]
  /\ 3 \notin StoredIds

\* the entry of the open queue for node n
openEntry(open, n) ==
  open[CHOOSE i \in 1 .. Len(open) : open[i].node = n]

\* the nodes of the open queue
openIds(open) == {open[i].node : i \in 1 .. Len(open)}

\* the entry of n after a pass that expanded node from with g-cost g: replaced by
\* the path over it when that one is strictly cheaper, else as it was
entryKept(n, from, g) ==
  IF /\ edgeCost(from, n) > 0
     /\ g + edgeCost(from, n) < openEntry(openNodes, n).gCost
  THEN /\ openEntry(openNodes', n) =
            setGCost(openEntry(openNodes, n), g + edgeCost(from, n))
       /\ predecessors'[n] = from
  ELSE /\ openEntry(openNodes', n) = openEntry(openNodes, n)
       /\ predecessors'[n] = predecessors[n]

\* C33: the open queue never holds two entries for one node; a pass of the
\* loop that expands a node gives every other entry the g-cost and the
\* predecessor of the path over the expanded node when that path is
\* strictly cheaper, leaves them as they were when it is not, and leaves
\* the queue ordered.
OneOpenEntryPerNode ==
  /\ [](\A i, j \in 1 .. Len(openNodes) :
          keyOf(openNodes[i].node) = keyOf(openNodes[j].node) => i = j)
  /\ [][(popped' # popped /\ pc' = "search") =>
          /\ heapOrdered(openNodes')
          /\ \A n \in openIds(openNodes) \ {At(openNodes, 0).node} :
               /\ n \in openIds(openNodes')
               /\ entryKept(n, At(openNodes, 0).node,
                            At(openNodes, 0).gCost)]_vars

\* node 3 was opened from the start node and is still open, now with node 2
\* as its predecessor and the g-cost of the path over 2, which is cheaper
OneOpenEntryPerNodeWitness ==
  /\ pc = "search"
  /\ 3 \in openIds(openNodes)
  /\ edgeCost(1, 3) > 0
  /\ edgeCost(1, 2) > 0
  /\ edgeCost(2, 3) > 0
  /\ predecessors[3] = 2
  /\ openEntry(openNodes, 3).gCost = edgeCost(1, 2) + edgeCost(2, 3)
  /\ edgeCost(1, 2) + edgeCost(2, 3) < edgeCost(1, 3)

\* a pass has met an open node again over a path that is not cheaper: node
\* 3 keeps the start node as its predecessor although 2 has been expanded
OpenEntryLeftUnchanged ==
  /\ pc = "search"
  /\ 3 \in openIds(openNodes)
  /\ 2 \in closedNodes
  /\ edgeCost(1, 3) > 0
  /\ edgeCost(2, 3) > 0
  /\ predecessors[3] = 1
  /\ openEntry(openNodes, 3).gCost = edgeCost(1, 3)

-----------------------------------------------------------------------------
(* Properties of the result of a search, under SpecSearch *)

\* the sum of the costs of the edges between consecutive nodes of a path
RECURSIVE costFrom(_, _)
costFrom(path, i) ==
  IF i >= Len(path) THEN 0
  ELSE edgeCost(path[i], path[i + 1]) + costFrom(path, i + 1)

\* the search has returned after popping a goal node
returnedGoal == pc = "returned" /\ \E n \in closedNodes : goal(n)

\* C34: when aStarSearch returns after popping a goal node, the path of the
\* result starts with the start node and ends with the goal node popped,
\* consecutive nodes of it are joined by an edge of the graph, and the cost
\* of the result is the sum of the costs of these edges.
PathAndCostAgree ==
  returnedGoal =>
    /\ result.path[1] = start
    /\ goal(result.path[Len(result.path)])
    /\ result.path[Len(result.path)] \in closedNodes
    /\ \A i \in 1 .. Len(result.path) - 1 :
         edgeCost(result.path[i], result.path[i + 1]) > 0
    /\ result.cost = costFrom(result.path, 1)

\* a search has returned the path of two edges over node 2, cheaper than
\* the edge from the start node to the goal node
PathAndCostAgreeWitness ==
  /\ returnedGoal
  /\ result.path = <<1, 2, NumNodes>>
  /\ edgeCost(1, NumNodes) > result.cost
  /\ result.cost = edgeCost(1, 2) + edgeCost(2, NumNodes)

\* under SpecPlan, where every edge costs 1: the cost of the result is the
\* number of actions planInterpretation makes of its path
PlanLengthIsCost ==
  /\ Len(planInterpretation(result)) = result.cost
  /\ Len(result.path) = result.cost + 1

-----------------------------------------------------------------------------
(* Properties of the heap array, under SpecHeap *)

\* C35: after every add, removeRoot and update of the heap no stored
\* element has a rank below the rank of its parent (the slot
\* floor((i-1)/2)) and every slot up to the length holds an element; an add
\* changes the stored elements by the one added, a removeRoot by the root,
\* and an update by nothing but the rank of one element.
HeapOrderInvariant ==
  /\ [](/\ heapOrdered(openNodes)
        /\ \A i \in 1 .. Len(openNodes) : openNodes[i].node \in HeapIds
        /\ Cardinality(openIds(openNodes)) = Len(openNodes))
  /\ [][\/ /\ Len(openNodes') = Len(openNodes) + 1
           /\ Range(openNodes) \subseteq Range(openNodes')
        \/ /\ Len(openNodes') = Len(openNodes) - 1
           /\ Range(openNodes') = Range(openNodes) \ {openNodes[1]}
        \/ /\ Len(openNodes') = Len(openNodes)
           /\ openIds(openNodes') = openIds(openNodes)
           /\ Cardinality(Range(openNodes) \ Range(openNodes')) <= 1]_vars

\* a removeRoot has taken the root of a heap of four elements and left the
\* three others in heap order, with a new root of higher rank
HeapOrderInvariantWitness ==
  /\ removed.kind = "element"
  /\ Len(openNodes) = 3
  /\ removed.element.fCost < openNodes[1].fCost
  /\ openNodes[1].fCost < openNodes[2].fCost
  /\ openNodes[1].fCost < openNodes[3].fCost
  /\ heapOrdered(openNodes)

-----------------------------------------------------------------------------
(* Termination of the search *)

\* every pass of the loop closes a node that was not closed before, so a
\* search makes no more passes than the graph has nodes
EachPopClosesANewNode == popped = Cardinality(closedNodes)

\* the objects the candidate formulas name are all in the initial world
wellFormed ==
  \A i \in 1 .. Len(interpretations) :
    namesOf(interpretations[i]) \subseteq contents(start.state)

\* C36: on a world that holds every object the formulas name, a search on
\* the state graph leaves its loop by popping a goal node, by emptying the
\* open queue or by the timeout: the only error a candidate ends in is the
\* timeout error.
SearchLeavesLoopProperly ==
  wellFormed => \A k \in 1 .. Len(errors) : errors[k] = "Search Timed Out"

-----------------------------------------------------------------------------
(* Properties of the drop edges, under SpecMoves *)

\* the top object of the stack rests on the floor or, by the stacking
\* rules, on the object below it
topObeysRules(stack) ==
  Len(stack) >= 2 =>
    stackingRules(objects[stack[Len(stack)]], objects[stack[Len(stack) - 1]])

\* C37: in the target of every drop edge of the node a walk has reached,
\* the dropped object and the object below it obey the stacking rules; a
\* node whose arm holds an object the rules forbid on the stack under the
\* arm has no drop edge, and asking for its edges raises no error.
DropEdgesObeyRules ==
  /\ \A target \in targetsBy(walk, "d") : topObeysRules(underArm(target))
  /\ (walk.state.holding # Null /\ ~dropAllowed(walk.state)) =>
       /\ targetsBy(walk, "d") = {}
       /\ ~outgoingEdgesThrow(walk)

\* a walk has picked the brick c and carried it over the ball a, on which
\* nothing may rest: the node has no drop edge
DropEdgesObeyRulesWitness ==
  /\ steps = 2
  /\ start.state.holding = Null
  /\ walk.state.holding = "c"
  /\ Len(underArm(walk.state)) > 0
  /\ topOf(underArm(walk.state)) = "a"
  /\ ~dropAllowed(walk.state)
  /\ targetsBy(walk, "d") = {}
  /\ ~outgoingEdgesThrow(walk)

-----------------------------------------------------------------------------
(* Properties of negated literals, under SpecPlanNegated *)

\* the literal with polarity true
Positive(literal) == [literal EXCEPT !.polarity = TRUE]

\* C38: a formula whose literal has polarity false is not planned for as if
\* the polarity were true: Planner.plan returns no plan for it whose final
\* world is one in which the relation of the literal holds.
NegatedIsNotPositive ==
  \A i \in 1 .. Len(plans) :
    ~literalHolds(Positive(plans[i].interpretation[1][1]),
                  applyMoves(start.state, actionsOf(plans[i].plan), 1))

\* Planner.plan returns no plan at all for a formula with a negated literal
NegatedIsFlagged == plans = <<>>

-----------------------------------------------------------------------------
(* Properties of biDirectionalSearch, under SpecBiSearch *)

\* the cost of a cheapest path of at most hops edges from n to a goal node,
\* Infinity when there is none; a cheapest path repeats no node
RECURSIVE cheapestWithin(_, _)
cheapestWithin(n, hops) ==
  IF n \in goals THEN 0
  ELSE IF hops = 0 THEN Infinity
  ELSE SetMin({Infinity}
                \cup {graph[n][i].cost
                        + cheapestWithin(graph[n][i].to, hops - 1) :
                          i \in 1 .. Len(graph[n])})

cheapestCost == cheapestWithin(start, NumNodes - 1)

\* a goal node can be reached from the start node
goalReachable == cheapestCost < Infinity

\* the call of biDirectionalSearch is over, other than by the timeout
biEnded == pc \in {"returned", "typeerror"}

\* C39: on a graph where a goal node can be reached, biDirectionalSearch
\* returns a path that starts at the start node, ends at a goal node, joins
\* consecutive nodes by edges of the graph, repeats no node, and costs what
\* the result of aStarSearch costs - with a consistent heuristic that is the
\* cost of a cheapest path, and the sum of the edge costs of the path.
BiSearchAgreesWithAStar ==
  (biEnded /\ goalReachable) =>
    /\ pc = "returned"
    /\ result.path[1] = start
    /\ goal(result.path[Len(result.path)])
    /\ \A i \in 1 .. Len(result.path) - 1 :
         edgeCost(result.path[i], result.path[i + 1]) > 0
    /\ \A i, j \in 1 .. Len(result.path) :
         result.path[i] = result.path[j] => i = j
    /\ Consistent => result.cost = cheapestCost

\* the call returns whenever a goal node can be reached
BiSearchReturns == (biEnded /\ goalReachable) => pc = "returned"

\* the path returned ends at a goal node whenever one can be reached
BiSearchEndsAtGoal ==
  (pc = "returned" /\ goalReachable) =>
    goal(result.path[Len(result.path)])

\* the path returned repeats no node
BiSearchRepeatsNoNode ==
  pc = "returned" =>
    \A i, j \in 1 .. Len(result.path) :
      result.path[i] = result.path[j] => i = j

\* the cost returned is the sum of the edge costs of the path returned
BiSearchCostIsPathCost ==
  (pc = "returned" /\ BiSearchRepeatsNoNode
     /\ \A i \in 1 .. Len(result.path) - 1 :
          edgeCost(result.path[i], result.path[i + 1]) > 0) =>
    result.cost = costFrom(result.path, 1)

\* some call does return a proper cheapest path
BiSearchCanAgree ==
  /\ pc = "returned"
  /\ popped > 0
  /\ Len(result.path) > 1
  /\ goal(result.path[Len(result.path)])
  /\ result.path[1] = start
  /\ BiSearchRepeatsNoNode
  /\ result.cost = cheapestCost
  /\ result.cost = costFrom(result.path, 1)

====
